---- MODULE Spec2Model ----
(***************************************************************************)
(* Model of the transform-and-present core of un-mandates-housekeeping:    *)
(* the Record Aggregator (fetchPPBRecords), the Hierarchy Builder          *)
(* (transformPPBData, budget-part and section variants), the supersession  *)
(* lookup (getActionForEntity), the paragraph Segmenter                    *)
(* (FilteredParagraphTree), the co-citation calculator of the entity panel *)
(* (EntityPanel) and the document detail views (DocumentSymbol) with their *)
(* lazy paragraph fetch.                                                   *)
(*                                                                         *)
(* JavaScript values are represented as follows.  A string is a TLA+       *)
(* string; null/undefined is the reserved string NULL; a JS array is a     *)
(* sequence; a JS object or Map used as a dictionary is a sequence of      *)
(* entries in insertion order (the order Object.entries / Map iteration    *)
(* yields for non-numeric keys).  Records carry the fields the transforms  *)
(* read; pass-through display fields (link, year, body, ...) are omitted.  *)
(***************************************************************************)
EXTENDS Integers, Sequences, FiniteSets, TLC

VARIABLES
    rows,             \* result of the citation query (DBCitationRow[])
    records,          \* PPBRecord[] returned by fetchPPBRecords
    parts,            \* PartData[] returned by transformPPBData (data-service.ts)
    sections,         \* SectionData[] returned by transformPPBData (transformData.ts)
    lookupRec,        \* record handed to getActionForEntity
    lookupEntity,     \* entity handed to getActionForEntity
    lookupResult,     \* MandateAction | null returned by getActionForEntity
    paragraphs,       \* Paragraph[] handed to FilteredParagraphTree
    relevantIndices,  \* Set<number> handed to FilteredParagraphTree
    tree,             \* preamble and segments computed by FilteredParagraphTree
    calcEntity,       \* EntityPanel prop: the focal entity
    calcBackground,   \* EntityPanel prop: backgroundMandates
    calcLegislative,  \* EntityPanel prop: legislativeMandates, in key order
    coCitingEntities, \* EntityPanel: the sorted co-citing entities
    views,            \* per DocumentSymbol: its open, paragraphs and loading state
    pending,          \* the views whose paragraph fetch is in flight
    fetches,          \* per view: the number of fetch() calls it has made
    opened,           \* the views that have been opened at least once
    settled,          \* per view: how its fetch() promise chain ended
    lastEvent,        \* the event handled last, and by which view
    expandedGaps,     \* FilteredParagraphTree: the gap indices shown expanded
    showPreamble,     \* FilteredParagraphTree: is the preamble block shown
    lastToggle,       \* the toggle clicked last in the paragraph tree
    filterEntity,     \* EntityPanel: the co-citing entity filtered by, or null
    lastClick,        \* the filter control clicked last, and the filter before it
    relParagraphs,    \* DocumentSymbol: the paragraphs state (null until
                      \* fetched) and the list the fetch answers with
    relEntity,        \* DocumentSymbol: selectedEntity, or null
    relEntityLong,    \* DocumentSymbol: selectedEntityLong, or undefined
    allEntityRelevance, \* DocumentSymbol prop: precomputed relevance by entity
    selectedRelevance,  \* the relevance getEntityRelevance returned
    entityParam,      \* EntityPage: the entity segment of the URL
    pageResult,       \* EntityPage: the part name and entity entry found (the
                      \* entry as a list of one), or not found
    overviewParts,    \* EntityOverview prop: the parts and their entity codes
    expandedEntity,   \* EntityOverview: the expanded entity key, or null
    columns,          \* useColumns: the number of grid columns
    lastChip,         \* the overview control used last, and the key expanded
                      \* before it
    done              \* the operations that have run so far

vars == << rows, records, parts, sections, lookupRec, lookupEntity,
           lookupResult, paragraphs, relevantIndices, tree, calcEntity,
           calcBackground, calcLegislative, coCitingEntities, views, pending,
           fetches, opened, settled, lastEvent, expandedGaps, showPreamble,
           lastToggle, filterEntity, lastClick, relParagraphs, relEntity,
           relEntityLong, allEntityRelevance, selectedRelevance, entityParam,
           pageResult, overviewParts, expandedEntity, columns, lastChip,
           done >>

pipelineVars == << rows, records, parts, sections >>
lookupVars == << lookupRec, lookupEntity, lookupResult >>
treeVars == << paragraphs, relevantIndices, tree >>
calcVars == << calcEntity, calcBackground, calcLegislative, coCitingEntities >>
viewVars == << views, pending, fetches, opened, settled, lastEvent >>
toggleVars == << expandedGaps, showPreamble, lastToggle >>
filterVars == << filterEntity, lastClick >>
relVars == << relParagraphs, relEntity, relEntityLong, allEntityRelevance,
              selectedRelevance >>
pageVars == << entityParam, pageResult >>
overviewVars == << overviewParts, expandedEntity, columns, lastChip >>
uiVars == << toggleVars, filterVars, relVars, pageVars, overviewVars >>

(***************************************************************************)
(* Bounds of the model.                                                    *)
(***************************************************************************)
MaxRows == 3
MaxActions == 2
MaxParas == 4
MaxBuckets == 2
MaxChips == 9
NumViews == 2

(***************************************************************************)
(* JavaScript value helpers.                                               *)
(***************************************************************************)
NULL == "<null>"

\* JS truthiness of a string | null: null, undefined and "" are falsy.
Truthy(s) == s # NULL /\ s # ""

\* JS  a || b  on string | null operands.
OrElse(a, b) == IF Truthy(a) THEN a ELSE b

\* All sequences over S of length at most n.
SeqUpTo(S, n) == UNION { [1..k -> S] : k \in 0..n }

(***************************************************************************)
(* Record Aggregator: fetchPPBRecords.                                     *)
(***************************************************************************)

\* RecordIndex as it would be if only the most recent record were looked at
\* (rows taken to arrive grouped by symbol).
RecordIndexLastOnly(recordsMap, symbol) ==
    IF Len(recordsMap) > 0
       /\ recordsMap[Len(recordsMap)].full_document_symbol = symbol
    THEN Len(recordsMap)
    ELSE 0

\* Position of the record keyed by symbol in the insertion-ordered Map, 0 if
\* the Map has no such key (recordsMap.has / recordsMap.get).
RecordIndex(recordsMap, symbol) ==
    IF \E i \in 1..Len(recordsMap) : recordsMap[i].full_document_symbol = symbol
    THEN CHOOSE i \in 1..Len(recordsMap) :
             recordsMap[i].full_document_symbol = symbol
    ELSE 0

\* The record created on first sight of a symbol.
NewRecord(row) ==
    [ full_document_symbol |-> row.ppb_full_document_symbol,
      num_citations        |-> 0,
      num_entities         |-> 0,
      entities             |-> << >>,
      entity_long          |-> row.entity_long,
      citation_info        |-> << >>,
      recurrence_actions   |-> << >>,
      has_recurrence       |-> FALSE ]

\* The CitationInfo built for one row.
BuildCitationInfo(row) ==
    [ budget_part      |-> row.budget_part,
      section          |-> row.section,
      entity_long      |-> row.entity_long,
      entity           |-> row.entity,
      sub_programme    |-> row.sub_programme,
      component        |-> row.component,
      part_in_document |-> row.part_in_document ]

\* TracksEntity without the entities.has(row.entity) test.
TracksEveryEntity(entities, row) == Truthy(row.entity)

\* "Track unique entities": does this row add its entity to the record?
TracksEntity(entities, row) ==
    Truthy(row.entity) /\ row.entity \notin entities

\* One iteration of the loop over rows.  acc.recordsMap is the Map of
\* records, acc.entitiesMap the Map of entity Sets, both in insertion order
\* and with the same keys.
AddRow(acc, row) ==
    LET symbol == row.ppb_full_document_symbol
        acc1 == IF RecordIndex(acc.recordsMap, symbol) = 0
                THEN [ recordsMap  |-> Append(acc.recordsMap, NewRecord(row)),
                       entitiesMap |-> Append(acc.entitiesMap, {}) ]
                ELSE acc
        i == RecordIndex(acc1.recordsMap, symbol)
        record == acc1.recordsMap[i]
        entities == acc1.entitiesMap[i]
        track == TracksEntity(entities, row)
        record1 == [ record EXCEPT
                       !.citation_info = Append(@, BuildCitationInfo(row)),
                       !.num_citations = @ + 1,
                       !.entities = IF track THEN Append(@, row.entity) ELSE @ ]
    IN  [ recordsMap  |-> [ acc1.recordsMap EXCEPT ![i] = record1 ],
          entitiesMap |-> [ acc1.entitiesMap EXCEPT ![i] =
                              IF track THEN entities \cup {row.entity}
                              ELSE entities ] ]

RECURSIVE GroupRows(_, _)
\* The loop "for (const row of rows)".
GroupRows(rs, acc) ==
    IF rs = << >> THEN acc
    ELSE GroupRows(Tail(rs), AddRow(acc, Head(rs)))

\* fetchPPBRecords applied to the query result rs: group, then set
\* num_entities from the size of each entity Set.
fetchPPBRecords(rs) ==
    LET g == GroupRows(rs, [ recordsMap |-> << >>, entitiesMap |-> << >> ])
    IN  [ i \in 1..Len(g.recordsMap) |->
            [ g.recordsMap[i] EXCEPT
                !.num_entities = Cardinality(g.entitiesMap[i]) ] ]

(***************************************************************************)
(* Static configuration and string operations.                             *)
(***************************************************************************)

\* BUDGET_PARTS_META, the static budget-part table.
BUDGET_PARTS_META ==
    << [ numeral |-> "I",    order |-> 1,  name |-> "Overall policymaking, direction and coordination" ],
       [ numeral |-> "II",   order |-> 2,  name |-> "Political affairs" ],
       [ numeral |-> "III",  order |-> 3,  name |-> "International justice and law" ],
       [ numeral |-> "IV",   order |-> 4,  name |-> "International cooperation and development" ],
       [ numeral |-> "V",    order |-> 5,  name |-> "Regional cooperation and development" ],
       [ numeral |-> "VI",   order |-> 6,  name |-> "Human rights and humanitarian affairs" ],
       [ numeral |-> "VII",  order |-> 7,  name |-> "Global communications" ],
       [ numeral |-> "VIII", order |-> 8,  name |-> "Common support services" ],
       [ numeral |-> "IX",   order |-> 9,  name |-> "Internal oversight" ],
       [ numeral |-> "X",    order |-> 10, name |-> "Jointly financed administrative activities and special expenses" ],
       [ numeral |-> "XI",   order |-> 11, name |-> "Capital expenditure" ],
       [ numeral |-> "XII",  order |-> 12, name |-> "Safety and security" ],
       [ numeral |-> "XIII", order |-> 13, name |-> "Development account" ],
       [ numeral |-> "XIV",  order |-> 14, name |-> "Staff assessment" ] >>

\* getBudgetPartsMeta(): the table handed to transformPPBData.
getBudgetPartsMeta == BUDGET_PARTS_META

\* String.prototype.toLowerCase on the strings of the model: each string
\* that has an upper-case letter is paired with its lower-case form; every
\* other string of the model is already lower case.
LowerCaseTable ==
    << << "Overall policymaking, direction and coordination",
          "overall policymaking, direction and coordination" >>,
       << "Political affairs", "political affairs" >>,
       << "POLITICAL AFFAIRS", "political affairs" >>,
       << "International justice and law", "international justice and law" >>,
       << "International Justice and Law", "international justice and law" >>,
       << "International cooperation and development",
          "international cooperation and development" >>,
       << "Regional cooperation and development",
          "regional cooperation and development" >>,
       << "Human rights and humanitarian affairs",
          "human rights and humanitarian affairs" >>,
       << "Global communications", "global communications" >>,
       << "Common support services", "common support services" >>,
       << "Internal oversight", "internal oversight" >>,
       << "Jointly financed administrative activities and special expenses",
          "jointly financed administrative activities and special expenses" >>,
       << "Capital expenditure", "capital expenditure" >>,
       << "Safety and security", "safety and security" >>,
       << "Development account", "development account" >>,
       << "Staff assessment", "staff assessment" >>,
       << "Unknown Ministry of Nothing", "unknown ministry of nothing" >>,
       << "Other", "other" >> >>

toLowerCase(s) ==
    IF \E i \in 1..Len(LowerCaseTable) : LowerCaseTable[i][1] = s
    THEN LowerCaseTable[CHOOSE i \in 1..Len(LowerCaseTable) :
                            LowerCaseTable[i][1] = s][2]
    ELSE s

\* String.prototype.localeCompare on the entity codes and section codes of
\* the model: the strings in collation order (digits before letters); the
\* result has the sign of the rank difference.
Collation == << "10", "3", "3 (Add.1)", "Annex", "DESA", "UNDP", "UNEP" >>

localeCompare(a, b) ==
    LET rank(s) == CHOOSE i \in 1..Len(Collation) : Collation[i] = s
    IN  rank(a) - rank(b)

\* The order given to a Budget Part whose name matches no table entry.
UnknownOrder == 999

(***************************************************************************)
(* Supersession lookup: getActionForEntity.                                *)
(***************************************************************************)

\* The null MandateAction.
NoAction == [ type |-> NULL, newerSymbol |-> NULL ]

\* ActionOf as it would be if latest_symbol were consulted first.
ActionOfPreferringLatest(action) ==
    IF Truthy(action.latest_symbol)
    THEN [ type |-> "UPDATE", newerSymbol |-> action.latest_symbol ]
    ELSE IF Len(action.newer_cited_symbols) > 0
    THEN [ type |-> "DROP", newerSymbol |-> action.newer_cited_symbols[1] ]
    ELSE [ type |-> "UPDATE", newerSymbol |-> action.latest_symbol ]

\* The action built from the recurrence entry that Array.find returned.
ActionOf(action) ==
    IF Len(action.newer_cited_symbols) > 0
    THEN [ type |-> "DROP", newerSymbol |-> action.newer_cited_symbols[1] ]
    ELSE [ type |-> "UPDATE", newerSymbol |-> action.latest_symbol ]

\* rec.recurrence_actions?.find((a) => a.entity === entity): the index of
\* the first matching entry, 0 when there is none or the list is undefined.
FindAction(rec, entity) ==
    LET hits == { i \in 1..Len(rec.recurrence_actions) :
                    rec.recurrence_actions[i].entity = entity }
    IN  IF ~rec.has_recurrence \/ hits = {} THEN 0
        ELSE CHOOSE i \in hits : \A j \in hits : i <= j

getActionForEntity(rec, entity) ==
    LET i == FindAction(rec, entity)
    IN  IF i = 0 THEN NoAction ELSE ActionOf(rec.recurrence_actions[i])

(***************************************************************************)
(* Hierarchy Builder: transformPPBData(records, budgetPartsMeta).          *)
(***************************************************************************)

\* isBackgroundPart that also takes a missing part for background.
isBackgroundPartOrMissing(part) ==
    part = "Mandates and background" \/ part = NULL

isBackgroundPart(part) == part = "Mandates and background"

\* The null BudgetPartMeta.
NoMeta == [ numeral |-> NULL, order |-> 0, name |-> NULL ]

\* metaByName[key] || null, where metaByName was filled by the loop over
\* budgetPartsMeta keyed by meta.name.toLowerCase(): a later entry with the
\* same key overwrites an earlier one.
MetaByName(budgetPartsMeta, key) ==
    LET hits == { i \in 1..Len(budgetPartsMeta) :
                    toLowerCase(budgetPartsMeta[i].name) = key }
    IN  IF hits = {} THEN NoMeta
        ELSE budgetPartsMeta[CHOOSE i \in hits : \A j \in hits : i >= j]

\* PartKey as it would be if every value without a metadata match were
\* folded into "Other".
PartKeyFoldingUnmatched(ci) ==
    IF Truthy(ci.budget_part)
       /\ \E k \in 1..Len(BUDGET_PARTS_META) :
            toLowerCase(BUDGET_PARTS_META[k].name) = toLowerCase(ci.budget_part)
    THEN ci.budget_part
    ELSE "Other"

\* The key of the structure object under which a context is filed.
PartKey(ci) == OrElse(ci.budget_part, "Other")

\* The meta recorded for a structure key.
MetaFor(budgetPartsMeta, budgetPart) ==
    MetaByName(budgetPartsMeta, toLowerCase(budgetPart))

\* Index of the entry of a dictionary (sequence of entries) whose field f
\* holds key; 0 when the key is absent.
KeyIndex(entries, f, key) ==
    IF \E i \in 1..Len(entries) : entries[i][f] = key
    THEN CHOOSE i \in 1..Len(entries) : entries[i][f] = key
    ELSE 0

\* PushUnlessPresent that pushes only into an empty list.
PushIfEmpty(list, mandate) ==
    IF Len(list) > 0 THEN list ELSE Append(list, mandate)

\* PushUnlessPresent without the some(...) test.
PushAlways(list, mandate) == Append(list, mandate)

\* if (!list.some((m) => m.symbol === symbol)) list.push(mandate)
PushUnlessPresent(list, mandate) ==
    IF \E i \in 1..Len(list) : list[i].symbol = mandate.symbol
    THEN list
    ELSE Append(list, mandate)

\* The legislative bucket key of a context.
LegislativeKey(ci) ==
    OrElse(OrElse(ci.sub_programme, OrElse(ci.component, NULL)),
           "Legislative mandates")

\* SkipsContext with the section test of the section variant.
SkipsContextWithoutSection(ci) == ~Truthy(ci.section) \/ ~Truthy(ci.entity)

\* Is the context skipped by the budget-part builder ("if (!entity) continue")?
SkipsContext(ci) == ~Truthy(ci.entity)

\* The Mandate built for one citation context of a record.
BuildMandate(rec, ci) ==
    [ symbol       |-> rec.full_document_symbol,
      action       |-> getActionForEntity(rec, ci.entity),
      entity       |-> ci.entity,
      entityLong   |-> ci.entity_long,
      isBackground |-> isBackgroundPart(ci.part_in_document) ]

\* One iteration of the inner loop "for (const ci of rec.citation_info)".
PlaceContext(structure, rec, ci, budgetPartsMeta) ==
    IF SkipsContext(ci) THEN structure
    ELSE
      LET budgetPart == PartKey(ci)
          entity == ci.entity
          mandate == BuildMandate(rec, ci)
          meta == MetaFor(budgetPartsMeta, budgetPart)
          s1 == IF KeyIndex(structure, "part", budgetPart) = 0
                THEN Append(structure, [ part |-> budgetPart, meta |-> meta,
                                         entities |-> << >> ])
                ELSE structure
          p == KeyIndex(s1, "part", budgetPart)
          ents1 == IF KeyIndex(s1[p].entities, "entity", entity) = 0
                   THEN Append(s1[p].entities,
                               [ entity |-> entity,
                                 entityLong |-> ci.entity_long,
                                 backgroundMandates |-> << >>,
                                 legislativeMandates |-> << >> ])
                   ELSE s1[p].entities
          e == KeyIndex(ents1, "entity", entity)
          entityData == ents1[e]
          key == LegislativeKey(ci)
          leg1 == IF KeyIndex(entityData.legislativeMandates, "key", key) = 0
                  THEN Append(entityData.legislativeMandates,
                              [ key |-> key, mandates |-> << >> ])
                  ELSE entityData.legislativeMandates
          b == KeyIndex(leg1, "key", key)
          entityData1 ==
              IF mandate.isBackground
              THEN [ entityData EXCEPT
                       !.backgroundMandates = PushUnlessPresent(@, mandate) ]
              ELSE [ entityData EXCEPT
                       !.legislativeMandates =
                           [ leg1 EXCEPT
                               ![b].mandates = PushUnlessPresent(@, mandate) ] ]
      IN  [ s1 EXCEPT ![p].entities = [ ents1 EXCEPT ![e] = entityData1 ] ]

RECURSIVE PlaceContexts(_, _, _, _)
\* The inner loop over rec.citation_info.
PlaceContexts(structure, rec, cis, budgetPartsMeta) ==
    IF cis = << >> THEN structure
    ELSE PlaceContexts(PlaceContext(structure, rec, Head(cis), budgetPartsMeta),
                       rec, Tail(cis), budgetPartsMeta)

RECURSIVE PlaceRecords(_, _, _)
\* The outer loop "for (const rec of records)".
PlaceRecords(structure, recs, budgetPartsMeta) ==
    IF recs = << >> THEN structure
    ELSE PlaceRecords(PlaceContexts(structure, Head(recs),
                                    Head(recs).citation_info, budgetPartsMeta),
                      Tail(recs), budgetPartsMeta)

\* OrderOf with a default that does not exceed the declared orders.
OrderOfUnknownFirst(meta) == IF meta = NoMeta THEN 0 ELSE meta.order

\* a.meta?.order ?? 999
OrderOf(meta) == IF meta = NoMeta THEN UnknownOrder ELSE meta.order

\* data.meta?.numeral || ""
NumeralOf(meta) == IF meta = NoMeta THEN "" ELSE OrElse(meta.numeral, "")

\* Array.prototype.sort is stable: x goes after every element that does not
\* compare greater than it.
InsertPart(sorted, x) ==
    LET k == Cardinality({ i \in 1..Len(sorted) :
                             OrderOf(sorted[i].meta) - OrderOf(x.meta) <= 0 })
    IN  SubSeq(sorted, 1, k) \o << x >> \o SubSeq(sorted, k + 1, Len(sorted))

RECURSIVE SortParts(_, _)
SortParts(entries, sorted) ==
    IF entries = << >> THEN sorted
    ELSE SortParts(Tail(entries), InsertPart(sorted, Head(entries)))

\* InsertEntity that keeps the entities in insertion order.
InsertEntityLast(sorted, x) == Append(sorted, x)

InsertEntity(sorted, x) ==
    LET k == Cardinality({ i \in 1..Len(sorted) :
                             localeCompare(sorted[i].entity, x.entity) <= 0 })
    IN  SubSeq(sorted, 1, k) \o << x >> \o SubSeq(sorted, k + 1, Len(sorted))

RECURSIVE SortEntities(_, _)
SortEntities(entries, sorted) ==
    IF entries = << >> THEN sorted
    ELSE SortEntities(Tail(entries), InsertEntity(sorted, Head(entries)))

\* The PartData built from one sorted structure entry.
ToPartData(data) ==
    [ part     |-> data.part,
      numeral  |-> NumeralOf(data.meta),
      order    |-> OrderOf(data.meta),
      entities |-> SortEntities(data.entities, << >>) ]

transformPPBData(recs, budgetPartsMeta) ==
    LET structure == PlaceRecords(<< >>, recs, budgetPartsMeta)
        sorted == SortParts(structure, << >>)
    IN  [ i \in 1..Len(sorted) |-> ToPartData(sorted[i]) ]

(***************************************************************************)
(* Section variant of the Hierarchy Builder: transformPPBData(records) of  *)
(* transformData.ts (section -> entity -> sub-programme -> mandates).      *)
(***************************************************************************)

\* The base given to a section code that does not start with a number.
UnknownSectionBase == 999

\* sectionSortKey: the regular expression /^(\d+)(?:\s*\(Add\.?(\d+)\))?/i
\* and parseInt applied to the section codes of the model.
sectionSortKey(section) ==
    CASE section = "3"         -> << 0, 3, section >>
      [] section = "10"        -> << 0, 10, section >>
      [] section = "3 (Add.1)" -> << 1, 3, section >>
      [] OTHER                 -> << 2, UnknownSectionBase, section >>

\* The comparator handed to sort: negative, zero or positive.
CompareSections(a, b) ==
    LET ka == sectionSortKey(a)
        kb == sectionSortKey(b)
    IN  IF ka[1] # kb[1] THEN ka[1] - kb[1]
        ELSE IF ka[2] # kb[2] THEN ka[2] - kb[2]
        ELSE localeCompare(ka[3], kb[3])

\* The sub-programme key of the section variant.
SubprogrammeKey(ci) ==
    OrElse(OrElse(ci.sub_programme, ci.component), "General")

\* "if (!section || !entity) continue"
SkipsSectionContext(ci) == ~Truthy(ci.section) \/ ~Truthy(ci.entity)

\* One iteration of the inner loop of the section variant.
PlaceSectionContext(structure, rec, ci) ==
    IF SkipsSectionContext(ci) THEN structure
    ELSE
      LET section == ci.section
          entity == ci.entity
          subprog == SubprogrammeKey(ci)
          mandate == [ symbol |-> rec.full_document_symbol,
                       action |-> getActionForEntity(rec, entity) ]
          s1 == IF KeyIndex(structure, "section", section) = 0
                THEN Append(structure, [ section |-> section,
                                         entities |-> << >> ])
                ELSE structure
          p == KeyIndex(s1, "section", section)
          ents1 == IF KeyIndex(s1[p].entities, "entity", entity) = 0
                   THEN Append(s1[p].entities,
                               [ entity |-> entity,
                                 entityLong |-> ci.entity_long,
                                 subprogrammes |-> << >> ])
                   ELSE s1[p].entities
          e == KeyIndex(ents1, "entity", entity)
          subs1 == IF KeyIndex(ents1[e].subprogrammes, "key", subprog) = 0
                   THEN Append(ents1[e].subprogrammes,
                               [ key |-> subprog, mandates |-> << >> ])
                   ELSE ents1[e].subprogrammes
          b == KeyIndex(subs1, "key", subprog)
          subs2 == [ subs1 EXCEPT
                       ![b].mandates = PushUnlessPresent(@, mandate) ]
      IN  [ s1 EXCEPT ![p].entities =
                [ ents1 EXCEPT ![e].subprogrammes = subs2 ] ]

RECURSIVE PlaceSectionContexts(_, _, _)
PlaceSectionContexts(structure, rec, cis) ==
    IF cis = << >> THEN structure
    ELSE PlaceSectionContexts(PlaceSectionContext(structure, rec, Head(cis)),
                              rec, Tail(cis))

RECURSIVE PlaceSectionRecords(_, _)
PlaceSectionRecords(structure, recs) ==
    IF recs = << >> THEN structure
    ELSE PlaceSectionRecords(
             PlaceSectionContexts(structure, Head(recs),
                                  Head(recs).citation_info),
             Tail(recs))

InsertSection(sorted, x) ==
    LET k == Cardinality({ i \in 1..Len(sorted) :
                             CompareSections(sorted[i].section, x.section) <= 0 })
    IN  SubSeq(sorted, 1, k) \o << x >> \o SubSeq(sorted, k + 1, Len(sorted))

RECURSIVE SortSections(_, _)
SortSections(entries, sorted) ==
    IF entries = << >> THEN sorted
    ELSE SortSections(Tail(entries), InsertSection(sorted, Head(entries)))

transformSectionData(recs) ==
    LET structure == PlaceSectionRecords(<< >>, recs)
        sorted == SortSections(structure, << >>)
    IN  [ i \in 1..Len(sorted) |->
            [ section  |-> sorted[i].section,
              entities |-> SortEntities(sorted[i].entities, << >>) ] ]

(***************************************************************************)
(* Inputs of the model.                                                    *)
(***************************************************************************)
Symbols == { "A/RES/1", "A/RES/2" }
EntityCodes == { "UNDP", "UNEP" }

Row(symbol, entity, entityLong, partInDoc, section, subProg, component, budgetPart) ==
    [ ppb_full_document_symbol |-> symbol,
      entity           |-> entity,
      entity_long      |-> entityLong,
      part_in_document |-> partInDoc,
      section          |-> section,
      sub_programme    |-> subProg,
      component        |-> component,
      budget_part      |-> budgetPart ]

\* Rows that differ in symbol and entity (the Record Aggregator's concern).
AggregatorRows ==
    { Row(s, e, NULL, NULL, "3", NULL, NULL, "Political affairs") :
        s \in Symbols, e \in EntityCodes \cup { NULL, "" } }

\* Rows of one entity that differ in symbol, long name and bucket.
CellRows ==
    { Row(x[1], "UNDP", x[2], x[3], "3", x[4], NULL, "Political affairs") :
        x \in Symbols \X { "Programme", "Development Programme" }
                      \X { "Mandates and background", NULL }
                      \X { NULL, "1" } }

\* Rows that differ in budget part and entity.
BudgetPartValues ==
    { NULL, "Political affairs", "POLITICAL AFFAIRS",
      "International justice and law", "Unknown Ministry of Nothing" }

PartRows ==
    { Row("A/RES/1", e, NULL, NULL, "3", NULL, NULL, bp) :
        e \in EntityCodes \cup { NULL }, bp \in BudgetPartValues }

\* Rows of one document and entity that differ in the part of the document,
\* sub-programme and component.
ClassRows ==
    { Row("A/RES/1", "UNDP", NULL, x[1], "3", x[2], x[3], "Political affairs") :
        x \in { "Mandates and background", "mandates and background", NULL }
              \X { NULL, "", "1" }
              \X { NULL, "Component A" } }

\* Rows that differ in symbol, entity, budget part and part of the document:
\* two documents cited by UNDP as background and as legislative mandates, by
\* UNEP, under a missing budget part, and without an entity.
CiteRows ==
    { Row(s, "UNDP", NULL, pid, "3", NULL, NULL, "Political affairs") :
        s \in Symbols, pid \in { "Mandates and background", NULL } }
    \cup
    { Row(s, "UNEP", NULL, NULL, "3", NULL, NULL, "Political affairs") :
        s \in Symbols }
    \cup
    { Row("A/RES/1", "UNDP", NULL, pid, "3", NULL, NULL, NULL) :
        pid \in { "Mandates and background", NULL } }
    \cup
    { Row("A/RES/1", e, NULL, NULL, "3", NULL, NULL,
          "International justice and law") : e \in { NULL, "" } }

\* Rows that differ in symbol, entity and section.
SkipRows ==
    { Row(s, e, NULL, NULL, sec, NULL, NULL, "Political affairs") :
        s \in Symbols, e \in { NULL, "UNDP" }, sec \in { NULL, "3", "3 (Add.1)" } }

(***************************************************************************)
(* The page pipeline: query, aggregate, build the hierarchy.               *)
(***************************************************************************)

PipelineIdle ==
    /\ lookupRec = NewRecord(Row("A/RES/1", NULL, NULL, NULL, NULL, NULL, NULL, NULL))
    /\ lookupEntity = NULL
    /\ lookupResult = NoAction

LookupIdle ==
    /\ rows = << >>
    /\ records = << >>
    /\ parts = << >>
    /\ sections = << >>

TreeIdle ==
    /\ paragraphs = << >>
    /\ relevantIndices = {}
    /\ tree = [ preamble |-> << >>, segments |-> << >> ]

CalcIdle ==
    /\ calcEntity = NULL
    /\ calcBackground = << >>
    /\ calcLegislative = << >>
    /\ coCitingEntities = << >>

\* Nothing has been toggled in a paragraph tree.
ToggleIdle ==
    /\ expandedGaps = {}
    /\ showPreamble = FALSE
    /\ lastToggle = [ control |-> "none", index |-> 0 ]

\* No filter chip has been clicked.
FilterIdle ==
    /\ filterEntity = NULL
    /\ lastClick = [ control |-> "none", entity |-> NULL, before |-> NULL ]

\* getEntityRelevance has nothing to answer.
RelIdle ==
    /\ relParagraphs = [ isNull |-> TRUE, items |-> << >> ]
    /\ relEntity = NULL
    /\ relEntityLong = NULL
    /\ allEntityRelevance = {}
    /\ selectedRelevance = [ indices |-> {}, aiComments |-> {} ]

\* No entity page has been requested.
PageIdle ==
    /\ entityParam = NULL
    /\ pageResult = [ found |-> FALSE, partName |-> NULL,
                      entityData |-> << >> ]

\* No overview is mounted.
OverviewIdle ==
    /\ overviewParts = << >>
    /\ expandedEntity = NULL
    /\ columns = 0
    /\ lastChip = [ control |-> "none", key |-> NULL, before |-> NULL ]

UiIdle == ToggleIdle /\ FilterIdle /\ RelIdle /\ PageIdle /\ OverviewIdle

\* No document detail view is mounted.
ViewIdle ==
    /\ views = << >>
    /\ pending = {}
    /\ fetches = << >>
    /\ opened = {}
    /\ settled = << >>
    /\ lastEvent = [ kind |-> "none", view |-> 0 ]

InitPipeline(domain) ==
    /\ rows \in SeqUpTo(domain, MaxRows)
    /\ records = << >>
    /\ parts = << >>
    /\ sections = << >>
    /\ done = {}
    /\ UiIdle
    /\ PipelineIdle
    /\ TreeIdle
    /\ CalcIdle
    /\ ViewIdle

\* getData of the database-backed page, first half: fetchPPBRecords().
FetchPPBRecords ==
    /\ "fetch" \notin done
    /\ records' = fetchPPBRecords(rows)
    /\ done' = done \cup { "fetch" }
    /\ UNCHANGED << rows, parts, sections, lookupVars, treeVars,
                 calcVars, viewVars, uiVars >>

\* getData, second half: transformPPBData(records, getBudgetPartsMeta()).
TransformPPBData ==
    /\ "fetch" \in done
    /\ "parts" \notin done
    /\ parts' = transformPPBData(records, getBudgetPartsMeta)
    /\ done' = done \cup { "parts" }
    /\ UNCHANGED << rows, records, sections, lookupVars, treeVars,
                 calcVars, viewVars, uiVars >>

\* getData of the section page: transformPPBData(records) of transformData.ts,
\* applied to records of the same shape read from the augmented data file.
TransformSectionData ==
    /\ "fetch" \in done
    /\ "sections" \notin done
    /\ sections' = transformSectionData(records)
    /\ done' = done \cup { "sections" }
    /\ UNCHANGED << rows, records, parts, lookupVars, treeVars,
                 calcVars, viewVars, uiVars >>

NextPipeline == FetchPPBRecords \/ TransformPPBData \/ TransformSectionData

InitAggregator == InitPipeline(AggregatorRows)
InitCells == InitPipeline(CellRows)
InitParts == InitPipeline(PartRows)
InitSkips == InitPipeline(SkipRows)
InitClass == InitPipeline(ClassRows)
InitCite == InitPipeline(CiteRows)

SpecAggregator == InitAggregator /\ [][NextPipeline]_vars
SpecCells == InitCells /\ [][NextPipeline]_vars
SpecParts == InitParts /\ [][NextPipeline]_vars
SpecSkips == InitSkips /\ [][NextPipeline]_vars
SpecClass == InitClass /\ [][NextPipeline]_vars
SpecCite == InitCite /\ [][NextPipeline]_vars

(***************************************************************************)
(* The supersession lookup on its own.                                     *)
(***************************************************************************)

NewerSymbolLists ==
    { << >>, << "A/RES/3" >>, << "A/RES/4", "A/RES/3" >> }

RecurrenceEntries ==
    [ entity : EntityCodes,
      newer_cited_symbols : NewerSymbolLists,
      latest_symbol : { NULL, "", "A/RES/5" } ]

\* A record as read from the augmented data file: recurrence_actions is
\* either absent or a list of entries.
LookupRecords ==
    LET base == NewRecord(Row("A/RES/1", "UNDP", NULL, NULL, "3", NULL, NULL,
                              "Political affairs"))
    IN  { base } \cup
        { [ base EXCEPT !.has_recurrence = TRUE, !.recurrence_actions = as ] :
            as \in SeqUpTo(RecurrenceEntries, MaxActions) }

InitLookup ==
    /\ lookupRec \in LookupRecords
    /\ lookupEntity \in EntityCodes
    /\ lookupResult = NoAction
    /\ done = {}
    /\ UiIdle
    /\ LookupIdle
    /\ TreeIdle
    /\ CalcIdle
    /\ ViewIdle

\* One call getActionForEntity(rec, entity).
GetActionForEntity ==
    /\ "lookup" \notin done
    /\ lookupResult' = getActionForEntity(lookupRec, lookupEntity)
    /\ done' = done \cup { "lookup" }
    /\ UNCHANGED << lookupRec, lookupEntity, pipelineVars, treeVars,
                 calcVars, viewVars, uiVars >>

NextLookup == GetActionForEntity

SpecLookup == InitLookup /\ [][NextLookup]_vars

(***************************************************************************)
(* Segmenter: FilteredParagraphTree.                                       *)
(***************************************************************************)

\* String.prototype.trim on the paragraph texts of the model.
trim(text) ==
    CASE text = " "     -> ""
      [] OTHER          -> text

\* p.type !== "frontmatter" && p.text?.trim()
IsContent(p) == p.type # "frontmatter" /\ Truthy(trim(p.text))

\* paragraphs.map((p, i) => ({ p, origIdx: i })).filter(...): original
\* indices count from 0.
ContentIndices(ps) ==
    LET all == [ i \in 1..Len(ps) |-> [ p |-> ps[i], origIdx |-> i - 1 ] ]
    IN  SelectSeq(all, LAMBDA it : IsContent(it.p))

Preamble(ps) ==
    SelectSeq(ContentIndices(ps), LAMBDA it : it.p.paragraph_type = "preambular")

Operative(ps) ==
    SelectSeq(ContentIndices(ps), LAMBDA it : it.p.paragraph_type # "preambular")

\* LastSegIs that never looks at the first segment.
LastSegIsBeyondFirst(segments, t) ==
    Len(segments) > 1 /\ segments[Len(segments)].type = t

\* segments[segments.length - 1]?.type === t
LastSegIs(segments, t) ==
    Len(segments) > 0 /\ segments[Len(segments)].type = t

\* PushToLast that opens a further segment of the last segment's type.
PushAsNewSegment(segments, more) ==
    Append(segments, [ segments[Len(segments)] EXCEPT !.items = more ])

\* lastSeg.items.push(...more)
PushToLast(segments, more) ==
    [ segments EXCEPT ![Len(segments)].items = @ \o more ]

\* SegmentStep that treats a heading like any other paragraph, placing it
\* the moment it is read.
SegmentStepUnbuffered(st, item, relevantSet) ==
    LET relevant == item.origIdx \in relevantSet
        t == IF relevant THEN "relevant" ELSE "gap"
    IN  [ st EXCEPT
            !.segments =
                IF Len(st.segments) > 0 /\ st.segments[Len(st.segments)].type = t
                THEN [ st.segments EXCEPT ![Len(st.segments)].items =
                                              Append(@, item) ]
                ELSE Append(st.segments,
                            IF relevant
                            THEN [ type |-> "relevant", items |-> << item >> ]
                            ELSE [ type |-> "gap", items |-> << item >>,
                                   gapIndex |-> st.gapIndex ]),
            !.gapIndex =
                IF relevant \/ (Len(st.segments) > 0
                                 /\ st.segments[Len(st.segments)].type = "gap")
                THEN @ ELSE @ + 1 ]

\* One iteration of "for (const item of operative)".  st holds the loop's
\* three variables: segments, gapIndex and pendingHeadings.
SegmentStep(st, item, relevantSet) ==
    LET relevant == item.origIdx \in relevantSet
        run == st.pendingHeadings \o << item >>
    IN  IF item.p.type = "heading" /\ ~relevant
        THEN [ st EXCEPT !.pendingHeadings = Append(@, item) ]
        ELSE IF relevant
        THEN [ st EXCEPT
                 !.segments =
                     IF LastSegIs(st.segments, "relevant")
                     THEN PushToLast(st.segments, run)
                     ELSE Append(st.segments,
                                 [ type |-> "relevant", items |-> run ]),
                 !.pendingHeadings = << >> ]
        ELSE [ st EXCEPT
                 !.segments =
                     IF LastSegIs(st.segments, "gap")
                     THEN PushToLast(st.segments, run)
                     ELSE Append(st.segments,
                                 [ type |-> "gap", items |-> run,
                                   gapIndex |-> st.gapIndex ]),
                 !.gapIndex =
                     IF LastSegIs(st.segments, "gap") THEN @ ELSE @ + 1,
                 !.pendingHeadings = << >> ]

RECURSIVE SegmentLoop(_, _, _)
SegmentLoop(st, items, relevantSet) ==
    IF items = << >> THEN st
    ELSE SegmentLoop(SegmentStep(st, Head(items), relevantSet),
                     Tail(items), relevantSet)

\* FlushPending without the flush of the headings left over.
FlushPendingDropped(st) == st.segments

\* FlushPending whose trailing gap restarts the gap numbering.
FlushPendingRenumbered(st) ==
    IF Len(st.pendingHeadings) > 0
    THEN IF Len(st.segments) > 0 /\ st.segments[Len(st.segments)].type = "gap"
         THEN [ st.segments EXCEPT ![Len(st.segments)].items =
                                       @ \o st.pendingHeadings ]
         ELSE Append(st.segments,
                     [ type |-> "gap", items |-> st.pendingHeadings,
                       gapIndex |-> 0 ])
    ELSE st.segments

\* FlushPending that appends the headings left over to whatever segment is
\* last.
FlushPendingIntoLast(st) ==
    IF Len(st.pendingHeadings) > 0
    THEN IF Len(st.segments) > 0
         THEN [ st.segments EXCEPT ![Len(st.segments)].items =
                                       @ \o st.pendingHeadings ]
         ELSE Append(st.segments,
                     [ type |-> "gap", items |-> st.pendingHeadings,
                       gapIndex |-> st.gapIndex ])
    ELSE st.segments

\* "if (pendingHeadings.length > 0) { ... }" after the loop.
FlushPending(st) ==
    IF Len(st.pendingHeadings) > 0
    THEN IF LastSegIs(st.segments, "gap")
         THEN PushToLast(st.segments, st.pendingHeadings)
         ELSE Append(st.segments,
                     [ type |-> "gap", items |-> st.pendingHeadings,
                       gapIndex |-> st.gapIndex ])
    ELSE st.segments

\* The preamble block and the segments FilteredParagraphTree renders.
FilteredParagraphTree(ps, relevantSet) ==
    LET st0 == [ segments |-> << >>, gapIndex |-> 0, pendingHeadings |-> << >> ]
    IN  [ preamble |-> Preamble(ps),
          segments |-> FlushPending(SegmentLoop(st0, Operative(ps), relevantSet)) ]

\* The kinds of paragraph of the model: operative heading, operative
\* paragraph, preambular paragraph, preambular heading, frontmatter, and an
\* operative paragraph whose text is blank.
ParagraphKinds ==
    { [ type |-> "heading",     text |-> "a", paragraph_type |-> "operative" ],
      [ type |-> "paragraph",   text |-> "a", paragraph_type |-> "operative" ],
      [ type |-> "paragraph",   text |-> "a", paragraph_type |-> "preambular" ],
      [ type |-> "heading",     text |-> "a", paragraph_type |-> "preambular" ],
      [ type |-> "frontmatter", text |-> "a", paragraph_type |-> "operative" ],
      [ type |-> "paragraph",   text |-> " ", paragraph_type |-> "operative" ] }

InitTree ==
    /\ paragraphs \in SeqUpTo(ParagraphKinds, MaxParas)
    /\ relevantIndices \in SUBSET (0..(Len(paragraphs) - 1))
    /\ tree = [ preamble |-> << >>, segments |-> << >> ]
    /\ done = {}
    /\ UiIdle
    /\ PipelineIdle
    /\ LookupIdle
    /\ CalcIdle
    /\ ViewIdle

\* One render of FilteredParagraphTree.
RenderFilteredTree ==
    /\ "segment" \notin done
    /\ tree' = FilteredParagraphTree(paragraphs, relevantIndices)
    /\ done' = done \cup { "segment" }
    /\ UNCHANGED << paragraphs, relevantIndices, pipelineVars, lookupVars,
                 calcVars, viewVars, uiVars >>

NextTree == RenderFilteredTree

SpecTree == InitTree /\ [][NextTree]_vars

\* Operative bodies on their own: displayed operative headings and
\* paragraphs, one paragraph longer than the mixed lists above.
BodyKinds ==
    { [ type |-> "heading",   text |-> "a", paragraph_type |-> "operative" ],
      [ type |-> "paragraph", text |-> "a", paragraph_type |-> "operative" ] }

InitBody ==
    /\ paragraphs \in SeqUpTo(BodyKinds, MaxParas + 1)
    /\ relevantIndices \in SUBSET (0..(Len(paragraphs) - 1))
    /\ tree = [ preamble |-> << >>, segments |-> << >> ]
    /\ done = {}
    /\ UiIdle
    /\ PipelineIdle
    /\ LookupIdle
    /\ CalcIdle
    /\ ViewIdle

SpecBody == InitBody /\ [][NextTree]_vars

(***************************************************************************)
(* Expansion state of a filtered paragraph tree: expandedGaps and          *)
(* showPreamble.  Each click re-renders the component, which computes the  *)
(* segments again from its props.                                          *)
(***************************************************************************)

\* ToggleIn that collapses every other gap when it expands one.
ToggleInAlone(set, idx) == IF idx \in set THEN {} ELSE { idx }

\* toggleGap: next.has(idx) ? next.delete(idx) : next.add(idx)
ToggleIn(set, idx) == IF idx \in set THEN set \ { idx } ELSE set \cup { idx }

\* Displayed operative headings and paragraphs, and preambular paragraphs.
ToggleKinds ==
    { [ type |-> "heading",   text |-> "a", paragraph_type |-> "operative" ],
      [ type |-> "paragraph", text |-> "a", paragraph_type |-> "operative" ],
      [ type |-> "paragraph", text |-> "a", paragraph_type |-> "preambular" ] }

InitToggle ==
    /\ paragraphs \in SeqUpTo(ToggleKinds, MaxParas)
    /\ relevantIndices \in SUBSET (0..(Len(paragraphs) - 1))
    /\ tree = [ preamble |-> << >>, segments |-> << >> ]
    /\ done = {}
    /\ ToggleIdle
    /\ FilterIdle /\ RelIdle /\ PageIdle /\ OverviewIdle
    /\ PipelineIdle
    /\ LookupIdle
    /\ CalcIdle
    /\ ViewIdle

\* A click on the bar of the gap segment with gap index idx.
ToggleGap(idx) ==
    /\ "segment" \in done
    /\ \E s \in 1..Len(tree.segments) :
          tree.segments[s].type = "gap" /\ tree.segments[s].gapIndex = idx
    /\ expandedGaps' = ToggleIn(expandedGaps, idx)
    /\ lastToggle' = [ control |-> "gap", index |-> idx ]
    /\ tree' = FilteredParagraphTree(paragraphs, relevantIndices)
    /\ UNCHANGED << showPreamble, paragraphs, relevantIndices, done,
                    pipelineVars, lookupVars, calcVars, viewVars, filterVars,
                    relVars, pageVars, overviewVars >>

\* A click on the "Show/Hide n preambular paragraphs" button, which is
\* rendered when the preamble is not empty.
TogglePreamble ==
    /\ "segment" \in done
    /\ Len(tree.preamble) > 0
    /\ showPreamble' = ~showPreamble
    /\ lastToggle' = [ control |-> "preamble", index |-> 0 ]
    /\ tree' = FilteredParagraphTree(paragraphs, relevantIndices)
    /\ UNCHANGED << expandedGaps, paragraphs, relevantIndices, done,
                    pipelineVars, lookupVars, calcVars, viewVars, filterVars,
                    relVars, pageVars, overviewVars >>

NextToggle ==
    \/ RenderFilteredTree
    \/ \E idx \in 0..MaxParas : ToggleGap(idx)
    \/ TogglePreamble

SpecToggle == InitToggle /\ [][NextToggle]_vars

(***************************************************************************)
(* Co-citation calculator of the entity panel (EntityPanel, EntityDetail). *)
(* A mandate carries its symbol and its allEntities list; the legislative  *)
(* mandates are the entries [key, mandates] of the panel's record, in key  *)
(* order.                                                                  *)
(***************************************************************************)

RECURSIVE FlattenBuckets(_)
\* Object.values(legislativeMandates).flat()
FlattenBuckets(buckets) ==
    IF buckets = << >> THEN << >>
    ELSE Head(buckets).mandates \o FlattenBuckets(Tail(buckets))

\* [...backgroundMandates, ...Object.values(legislativeMandates).flat()]
AllMandates(background, legislative) ==
    background \o FlattenBuckets(legislative)

\* Increment that records an entity once and never counts further.
IncrementOnce(counts, e) ==
    IF \E k \in 1..Len(counts) : counts[k].entity = e
    THEN counts
    ELSE Append(counts, [ entity |-> e, count |-> 1 ])

\* coCitingCounts[e] = (coCitingCounts[e] || 0) + 1, on the entries of
\* coCitingCounts in insertion order.
Increment(counts, e) ==
    LET k == KeyIndex(counts, "entity", e)
    IN  IF k = 0
        THEN Append(counts, [ entity |-> e, count |-> 0 + 1 ])
        ELSE [ counts EXCEPT ![k].count = @ + 1 ]

RECURSIVE CountEntities(_, _, _)
\* for (const e of m.allEntities) { if (e !== entity) ... }
CountEntities(counts, entities, entity) ==
    IF entities = << >> THEN counts
    ELSE CountEntities(IF Head(entities) # entity
                       THEN Increment(counts, Head(entities))
                       ELSE counts,
                       Tail(entities), entity)

RECURSIVE CountMandates(_, _, _)
\* for (const m of allMandates) { ... }
CountMandates(counts, mandates, entity) ==
    IF mandates = << >> THEN counts
    ELSE CountMandates(CountEntities(counts, Head(mandates).allEntities, entity),
                       Tail(mandates), entity)

\* InsertByCount that puts x before the entries of equal count.
InsertByCountBeforeTies(sorted, x) ==
    LET before == SelectSeq(sorted, LAMBDA y : y.count > x.count)
        after == SelectSeq(sorted, LAMBDA y : y.count <= x.count)
    IN  before \o << x >> \o after

\* Insertion of x into a list sorted by (a, b) => b[1] - a[1]: after every
\* entry whose count is at least x's, which keeps the sort stable.
InsertByCount(sorted, x) ==
    LET before == SelectSeq(sorted, LAMBDA y : y.count >= x.count)
        after == SelectSeq(sorted, LAMBDA y : y.count < x.count)
    IN  before \o << x >> \o after

RECURSIVE SortByCount(_)
\* .sort((a, b) => b[1] - a[1])
SortByCount(entries) ==
    IF entries = << >> THEN << >>
    ELSE InsertByCount(SortByCount(SubSeq(entries, 1, Len(entries) - 1)),
                       entries[Len(entries)])

\* The list coCitingEntities the panel renders.
CoCitingEntities(entity, background, legislative) ==
    SortByCount(CountMandates(<< >>, AllMandates(background, legislative),
                              entity))

\* The entities of the panels of the model.
CalcEntities == { "UNDP", "UNEP", "DESA" }

\* Entity lists without repetition, as the aggregator builds record.entities;
\* a mandate of the focal entity's panel has the focal entity in its list.
EntityLists ==
    { l \in SeqUpTo(CalcEntities, Cardinality(CalcEntities)) :
        \A i, j \in 1..Len(l) : i # j => l[i] # l[j] }

\* Lists of symbols without repetition: within one list of mandates the
\* hierarchy builder keeps one mandate per symbol.
SymbolLists ==
    { l \in SeqUpTo(Symbols, Cardinality(Symbols)) :
        \A i, j \in 1..Len(l) : i # j => l[i] # l[j] }

\* The keys of the legislative buckets, in insertion order.
BucketKeys ==
    << "Legislative mandates", "Subprogramme 1", "Subprogramme 2",
       "Subprogramme 3" >>

\* The mandates of the symbols of l, each with its document's entity list.
MandatesOf(l, entitiesOf) ==
    [ i \in 1..Len(l) |-> [ symbol |-> l[i], allEntities |-> entitiesOf[l[i]] ] ]

InitCalc ==
    /\ calcEntity \in { "UNDP", "UNEP" }
    /\ \E entitiesOf \in [ Symbols -> { l \in EntityLists :
                                          \E i \in 1..Len(l) : l[i] = calcEntity } ] :
          /\ calcBackground \in { MandatesOf(l, entitiesOf) : l \in SymbolLists }
          /\ calcLegislative \in
               { [ b \in 1..Len(ls) |->
                     [ key |-> BucketKeys[b],
                       mandates |-> MandatesOf(ls[b], entitiesOf) ] ] :
                 ls \in SeqUpTo(SymbolLists \ { << >> }, MaxBuckets) }
    /\ coCitingEntities = << >>
    /\ done = {}
    /\ UiIdle
    /\ PipelineIdle
    /\ LookupIdle
    /\ TreeIdle
    /\ ViewIdle

\* One render of the entity panel, up to the list of co-citing entities.
ComputeCoCiting ==
    /\ "cociting" \notin done
    /\ coCitingEntities' =
         CoCitingEntities(calcEntity, calcBackground, calcLegislative)
    /\ done' = done \cup { "cociting" }
    /\ UNCHANGED << calcEntity, calcBackground, calcLegislative, pipelineVars,
                    lookupVars, treeVars, viewVars, uiVars >>

NextCalc == ComputeCoCiting

SpecCalc == InitCalc /\ [][NextCalc]_vars

(***************************************************************************)
(* The co-citing-entity filter of the entity panel.                        *)
(***************************************************************************)

\* mandates.filter((m) => m.allEntities.includes(filterEntity)) when a
\* filter entity is set (a truthy string), the mandates themselves otherwise.
FilterMandates(mandates, filter) ==
    IF Truthy(filter)
    THEN SelectSeq(mandates,
                   LAMBDA m : \E j \in 1..Len(m.allEntities) :
                                  m.allEntities[j] = filter)
    ELSE mandates

RECURSIVE FilteredLegislative(_, _)
\* The buckets whose filtered list is not empty, with that list.
FilteredLegislative(buckets, filter) ==
    IF buckets = << >> THEN << >>
    ELSE LET filtered == FilterMandates(Head(buckets).mandates, filter)
             rest == FilteredLegislative(Tail(buckets), filter)
         IN  IF Len(filtered) > 0
             THEN << [ key |-> Head(buckets).key, mandates |-> filtered ] >>
                    \o rest
             ELSE rest

\* backgroundMandates.length + the sum of the bucket lengths.
TotalMandates(background, buckets) ==
    Len(background) + Len(FlattenBuckets(buckets))

FilteredTotal(background, buckets, filter) ==
    TotalMandates(FilterMandates(background, filter),
                  FilteredLegislative(buckets, filter))

\* filteredTotal === 0 && filterEntity: "No mandates match this filter".
ShowsNoMatch(background, buckets, filter) ==
    FilteredTotal(background, buckets, filter) = 0 /\ Truthy(filter)

\* NextFilterEntity that never clears.
NextFilterEntitySticky(current, e) == e

\* setFilterEntity(filterEntity === e ? null : e)
NextFilterEntity(current, e) == IF current = e THEN NULL ELSE e

\* A click on the chip of co-citing entity number k.
ClickChip(k) ==
    /\ "cociting" \in done
    /\ k \in 1..Len(coCitingEntities)
    /\ filterEntity' = NextFilterEntity(filterEntity, coCitingEntities[k].entity)
    /\ lastClick' = [ control |-> "chip", entity |-> coCitingEntities[k].entity,
                      before |-> filterEntity ]
    /\ coCitingEntities' =
         CoCitingEntities(calcEntity, calcBackground, calcLegislative)
    /\ UNCHANGED << calcEntity, calcBackground, calcLegislative, done,
                    pipelineVars, lookupVars, treeVars, viewVars, toggleVars,
                    relVars, pageVars, overviewVars >>

\* A click on "show all mandate documents", rendered while a filter is set.
ClearFilter ==
    /\ "cociting" \in done
    /\ Len(coCitingEntities) > 0
    /\ Truthy(filterEntity)
    /\ filterEntity' = NULL
    /\ lastClick' = [ control |-> "clear", entity |-> NULL,
                      before |-> filterEntity ]
    /\ coCitingEntities' =
         CoCitingEntities(calcEntity, calcBackground, calcLegislative)
    /\ UNCHANGED << calcEntity, calcBackground, calcLegislative, done,
                    pipelineVars, lookupVars, treeVars, viewVars, toggleVars,
                    relVars, pageVars, overviewVars >>

NextFilter ==
    \/ ComputeCoCiting
    \/ \E k \in 1..Cardinality(CalcEntities) : ClickChip(k)
    \/ ClearFilter

SpecFilter == InitCalc /\ [][NextFilter]_vars

(***************************************************************************)
(* Document detail views (DocumentSymbol).  Each view owns three useState  *)
(* cells: open, paragraphs (Paragraph[] | null) and loading.  A value of   *)
(* type Paragraph[] | null is a record: isNull tells null from an array,   *)
(* items holds the array.                                                  *)
(***************************************************************************)

Views == 1..NumViews

NullValue == [ isNull |-> TRUE, items |-> << >> ]
ArrayOf(items) == [ isNull |-> FALSE, items |-> items ]

\* JS truthiness of Paragraph[] | null: every array, the empty one
\* included, is truthy.
TruthyValue(v) == ~v.isNull

\* The ways a fetch of /data/paragraphs/<symbol>.json can end: the request
\* is rejected; the response is not OK; the body is not JSON; the body is
\* null, an empty array, or an array of paragraphs.
Responses == { "rejected", "not-ok", "unparsable", "null", "empty", "data" }

SomeParagraphs ==
    << [ type |-> "paragraph", text |-> "a", paragraph_type |-> "operative" ] >>

\* res.json() of a response whose body parses.
JsonOf(r) ==
    CASE r = "empty" -> ArrayOf(<< >>)
      [] r = "data"  -> ArrayOf(SomeParagraphs)
      [] OTHER       -> NullValue

\* fetch(...).then((res) => (res.ok ? res.json() : null)): the promise this
\* yields, fulfilled with a value or rejected.
FirstThen(r) ==
    IF r = "rejected" THEN [ fulfilled |-> FALSE, value |-> NullValue ]
    ELSE IF r = "not-ok" THEN [ fulfilled |-> TRUE, value |-> NullValue ]
    ELSE IF r = "unparsable" THEN [ fulfilled |-> FALSE, value |-> NullValue ]
    ELSE [ fulfilled |-> TRUE, value |-> JsonOf(r) ]

\* Settle without the .catch handler: a rejection sets nothing and is left
\* unhandled.
SettleWithoutCatch(view, promise) ==
    IF promise.fulfilled
    THEN [ view |-> [ view EXCEPT
                        !.paragraphs = IF TruthyValue(promise.value)
                                       THEN promise.value ELSE ArrayOf(<< >>),
                        !.loading = FALSE ],
           unhandled |-> FALSE ]
    ELSE [ view |-> view, unhandled |-> TRUE ]

\* .then((data) => { setParagraphs(data || []); setLoading(false); })
\* .catch(() => { setParagraphs([]); setLoading(false); }): the view's state
\* afterwards, and whether a rejection is left unhandled.
Settle(view, promise) ==
    IF promise.fulfilled
    THEN [ view |-> [ view EXCEPT
                        !.paragraphs = IF TruthyValue(promise.value)
                                       THEN promise.value ELSE ArrayOf(<< >>),
                        !.loading = FALSE ],
           unhandled |-> FALSE ]
    ELSE [ view |-> [ view EXCEPT !.paragraphs = ArrayOf(<< >>),
                                  !.loading = FALSE ],
           unhandled |-> FALSE ]

\* ShouldFetch that takes an empty array for "not loaded yet".
ShouldFetchWhenEmpty(view) ==
    /\ view.open
    /\ (view.paragraphs.isNull \/ view.paragraphs.items = << >>)
    /\ ~view.loading

\* The guard of the effect: open && !paragraphs && !loading.
ShouldFetch(view) ==
    view.open /\ ~TruthyValue(view.paragraphs) /\ ~view.loading

\* The effect body when its guard holds: setLoading(true); fetch(...) is
\* issued by the caller of this operator.
AfterEffect(view) ==
    IF ShouldFetch(view) THEN [ view EXCEPT !.loading = TRUE ] ELSE view

\* StoreView that keeps paragraphs and loading in one place shared by all
\* the views.
StoreViewShared(vs, v, view) ==
    [ w \in DOMAIN vs |->
        IF w = v THEN view
        ELSE [ vs[w] EXCEPT !.paragraphs = view.paragraphs,
                            !.loading = view.loading ] ]

\* The state setters of view v: each DocumentSymbol instance has its own
\* useState cells.
StoreView(vs, v, view) == [ vs EXCEPT ![v] = view ]

\* What the panel of an open view shows below its header.
PanelContent(view) ==
    IF view.loading THEN "Loader2"
    ELSE IF TruthyValue(view.paragraphs) /\ Len(view.paragraphs.items) > 0
    THEN "ParagraphTree"
    ELSE "No paragraph data available"

InitViews ==
    /\ views = [ v \in Views |->
                   [ open |-> FALSE, paragraphs |-> NullValue,
                     loading |-> FALSE ] ]
    /\ pending = {}
    /\ fetches = [ v \in Views |-> 0 ]
    /\ opened = {}
    /\ settled = [ v \in Views |-> [ response |-> "none", unhandled |-> FALSE ] ]
    /\ lastEvent = [ kind |-> "none", view |-> 0 ]
    /\ done = {}
    /\ UiIdle
    /\ PipelineIdle
    /\ LookupIdle
    /\ TreeIdle
    /\ CalcIdle

\* The render that follows a change of view v's state to `view`, and the
\* effect that runs after it: one fetch() call when the guard holds.
Commit(v, view, inFlight) ==
    /\ views' = StoreView(views, v, AfterEffect(view))
    /\ pending' = IF ShouldFetch(view) THEN inFlight \cup { v } ELSE inFlight
    /\ fetches' = [ fetches EXCEPT ![v] = IF ShouldFetch(view) THEN @ + 1 ELSE @ ]

\* handleClick of view v's button: setOpen(true).
HandleClick(v) ==
    /\ ~views[v].open
    /\ Commit(v, [ views[v] EXCEPT !.open = TRUE ], pending)
    /\ opened' = opened \cup { v }
    /\ lastEvent' = [ kind |-> "open", view |-> v ]
    /\ UNCHANGED << settled, done, pipelineVars, lookupVars, treeVars, calcVars, uiVars >>

\* A click on view v's backdrop or close button: setOpen(false).
Close(v) ==
    /\ views[v].open
    /\ Commit(v, [ views[v] EXCEPT !.open = FALSE ], pending)
    /\ lastEvent' = [ kind |-> "close", view |-> v ]
    /\ UNCHANGED << opened, settled, done, pipelineVars, lookupVars, treeVars,
                    calcVars, uiVars >>

\* The fetch of view v ends in one of the possible ways and the promise
\* chain runs to its end.
FetchSettles(v) ==
    /\ v \in pending
    /\ \E r \in Responses :
          LET end == Settle(views[v], FirstThen(r))
          IN  /\ Commit(v, end.view, pending \ { v })
              /\ settled' = [ settled EXCEPT
                                ![v] = [ response |-> r,
                                         unhandled |-> end.unhandled ] ]
    /\ lastEvent' = [ kind |-> "settle", view |-> v ]
    /\ UNCHANGED << opened, done, pipelineVars, lookupVars, treeVars, calcVars, uiVars >>

NextViews == \E v \in Views : HandleClick(v) \/ Close(v) \/ FetchSettles(v)

SpecViews == InitViews /\ [][NextViews]_vars

(***************************************************************************)
(* Vocabulary of the properties.                                           *)
(***************************************************************************)

\* The citation contexts of the records, as <<record index, context index>>.
Contexts ==
    UNION { { << r, c >> : c \in 1..Len(records[r].citation_info) } :
              r \in 1..Len(records) }

Ctx(rc) == records[rc[1]].citation_info[rc[2]]

SymbolOf(rc) == records[rc[1]].full_document_symbol

\* The order in which the builder's two loops visit the contexts.
VisitedNoLater(a, b) == a[1] < b[1] \/ (a[1] = b[1] /\ a[2] <= b[2])

\* The contexts that carry an entity.
PlacedContexts == { rc \in Contexts : Ctx(rc).entity \notin { NULL, "" } }

\* The rows of the query result that carry a symbol, in row order.
RowsOf(symbol) ==
    SelectSeq(rows, LAMBDA r : r.ppb_full_document_symbol = symbol)

\* The (budget part, entity, bucket) cells of the hierarchy.
HierarchyCells ==
    UNION { UNION {
        { [ part |-> parts[i].part, entity |-> parts[i].entities[e].entity,
            background |-> TRUE, key |-> NULL,
            mandates |-> parts[i].entities[e].backgroundMandates ] }
        \cup
        { [ part |-> parts[i].part, entity |-> parts[i].entities[e].entity,
            background |-> FALSE,
            key |-> parts[i].entities[e].legislativeMandates[b].key,
            mandates |-> parts[i].entities[e].legislativeMandates[b].mandates ] :
            b \in 1..Len(parts[i].entities[e].legislativeMandates) } :
        e \in 1..Len(parts[i].entities) } : i \in 1..Len(parts) }

\* The contexts with symbol that the builder files in a cell.
ContextsOfCell(cell, symbol) ==
    { rc \in PlacedContexts :
        /\ SymbolOf(rc) = symbol
        /\ PartKey(Ctx(rc)) = cell.part
        /\ Ctx(rc).entity = cell.entity
        /\ (Ctx(rc).part_in_document = "Mandates and background") = cell.background
        /\ cell.background \/ LegislativeKey(Ctx(rc)) = cell.key }

NoDuplicateSymbols(ms) ==
    \A i, j \in 1..Len(ms) : i # j => ms[i].symbol # ms[j].symbol

\* A budget part value matches a metadata name, letter case ignored.
MatchesMeta(value, meta) ==
    value # NULL /\ toLowerCase(value) = toLowerCase(meta.name)

Matched(value) ==
    \E k \in 1..Len(BUDGET_PARTS_META) : MatchesMeta(value, BUDGET_PARTS_META[k])

\* The hierarchy holds a mandate for context rc in the Budget Part named name.
PlacedUnder(rc, name) ==
    \E cell \in HierarchyCells :
        /\ cell.part = name
        /\ cell.entity = Ctx(rc).entity
        /\ \E k \in 1..Len(cell.mandates) : cell.mandates[k].symbol = SymbolOf(rc)

(***************************************************************************)
(* C1.  In the hierarchy no (budget part, entity, bucket) cell holds two   *)
(* mandates with the same symbol, however many contexts reference it, and  *)
(* the mandate kept is the one built from the first such context visited.  *)
(***************************************************************************)
C1_CellsDeduplicated ==
    "parts" \in done =>
        \A cell \in HierarchyCells :
            /\ NoDuplicateSymbols(cell.mandates)
            /\ \A k \in 1..Len(cell.mandates) :
                 LET m == cell.mandates[k]
                     cs == ContextsOfCell(cell, m.symbol)
                 IN  /\ cs # {}
                     /\ \A first \in cs :
                          (\A other \in cs : VisitedNoLater(first, other))
                              => m.entityLong = Ctx(first).entity_long

\* Two contexts of one symbol with different long names fall in one cell.
C1_Witness ==
    /\ "parts" \in done
    /\ \E cell \in HierarchyCells : \E k \in 1..Len(cell.mandates) :
         \E a, b \in ContextsOfCell(cell, cell.mandates[k].symbol) :
             Ctx(a).entity_long # Ctx(b).entity_long

(***************************************************************************)
(* C3.  The Record Aggregator produces one record per distinct symbol of   *)
(* the rows, and each record's citation list (and num_citations) has one   *)
(* entry per row with that symbol, in row order.                           *)
(***************************************************************************)
C3_OneRecordPerSymbol ==
    "fetch" \in done =>
        /\ Len(records) =
             Cardinality({ rows[i].ppb_full_document_symbol : i \in 1..Len(rows) })
        /\ \A r \in 1..Len(records) :
             LET rs == RowsOf(records[r].full_document_symbol)
                 cis == records[r].citation_info
             IN  /\ Len(cis) = Len(rs)
                 /\ records[r].num_citations = Len(rs)
                 /\ \A k \in 1..Len(rs) :
                      /\ cis[k].entity = rs[k].entity
                      /\ cis[k].section = rs[k].section
                      /\ cis[k].budget_part = rs[k].budget_part

\* Two symbols whose rows interleave, one of them cited by two rows.
C3_Witness ==
    /\ "fetch" \in done
    /\ Len(records) = 2
    /\ \E r \in 1..2 : records[r].num_citations = 2
    /\ rows[1].ppb_full_document_symbol = rows[3].ppb_full_document_symbol
    /\ rows[1].ppb_full_document_symbol # rows[2].ppb_full_document_symbol

(***************************************************************************)
(* C4.  Every record's entity list has no duplicates and is in first-seen  *)
(* order, and its entity count is the number of distinct entity values     *)
(* among the rows of its symbol.  As claimed, over the non-null values:    *)
(***************************************************************************)
C4_CountsNonNullEntities ==
    "fetch" \in done =>
        \A r \in 1..Len(records) :
            LET rs == RowsOf(records[r].full_document_symbol)
            IN  records[r].num_entities =
                    Cardinality({ rs[k].entity : k \in 1..Len(rs) } \ { NULL })

\* The first row of rs that carries entity e.
FirstRowWith(rs, e) ==
    CHOOSE k \in 1..Len(rs) :
        rs[k].entity = e /\ \A j \in 1..(k - 1) : rs[j].entity # e

(* C4 as amended: over the values that are neither null nor the empty      *)
(* string; a row whose entity is null or empty adds a citation context and *)
(* nothing to the entity list or count.                                    *)
C4_CountsNonEmptyEntities ==
    "fetch" \in done =>
        \A r \in 1..Len(records) :
            LET rs == RowsOf(records[r].full_document_symbol)
                named == { rs[k].entity : k \in 1..Len(rs) } \ { NULL, "" }
                es == records[r].entities
            IN  /\ records[r].num_entities = Cardinality(named)
                /\ Len(es) = Cardinality(named)
                /\ { es[i] : i \in 1..Len(es) } = named
                /\ \A i, j \in 1..Len(es) :
                     i < j => FirstRowWith(rs, es[i]) < FirstRowWith(rs, es[j])
                /\ Len(records[r].citation_info) = Len(rs)

\* A record whose rows repeat an entity and include a row without entity.
C4_Witness ==
    /\ "fetch" \in done
    /\ \E r \in 1..Len(records) :
         LET rs == RowsOf(records[r].full_document_symbol)
         IN  /\ \E i, j \in 1..Len(rs) :
                  i # j /\ rs[i].entity = rs[j].entity /\ rs[i].entity = "UNDP"
             /\ \E k \in 1..Len(rs) : rs[k].entity \in { NULL, "" }
             /\ records[r].num_entities = 1

(***************************************************************************)
(* C5.  Budget Parts appear in non-decreasing declared order, and every    *)
(* Budget Part that matches no metadata entry comes strictly after all     *)
(* that match one.                                                         *)
(***************************************************************************)
C5_PartsInDeclaredOrder ==
    "parts" \in done =>
        /\ \A i \in 1..Len(parts) : \A k \in 1..Len(BUDGET_PARTS_META) :
             MatchesMeta(parts[i].part, BUDGET_PARTS_META[k])
                 => parts[i].order = BUDGET_PARTS_META[k].order
        /\ \A i, j \in 1..Len(parts) :
             /\ i < j => parts[i].order <= parts[j].order
             /\ Matched(parts[i].part) /\ ~Matched(parts[j].part) => i < j

\* An unmatched part and part III were created before part II.
C5_Witness ==
    /\ "parts" \in done
    /\ Len(parts) = 3
    /\ Len(rows) = 3
    /\ rows[1].budget_part = "Unknown Ministry of Nothing"
    /\ rows[2].budget_part = "International justice and law"
    /\ rows[3].budget_part = "Political affairs"
    /\ parts[1].numeral = "II"
    /\ parts[3].part = "Unknown Ministry of Nothing"

(***************************************************************************)
(* C6.  As claimed: every placed context whose budget part is null or      *)
(* matches no metadata name is filed in the one Budget Part named "Other", *)
(* which has an empty numeral and comes after all numbered parts.          *)
(***************************************************************************)
NumberedBefore(i) ==
    \A j \in 1..Len(parts) : parts[j].numeral # "" => j < i

C7_OnePartPerNumeral ==
    "parts" \in done =>
        \A k \in 1..Len(BUDGET_PARTS_META) :
            LET meta == BUDGET_PARTS_META[k]
                cs == { rc \in PlacedContexts :
                          MatchesMeta(Ctx(rc).budget_part, meta) }
                entries == { i \in 1..Len(parts) : parts[i].numeral = meta.numeral }
            IN  cs # {} =>
                    /\ Cardinality(entries) = 1
                    /\ \A rc \in cs : \A i \in entries :
                         PlacedUnder(rc, parts[i].part)

SectionCells ==
    UNION { UNION {
        { [ section |-> sections[i].section,
            entity |-> sections[i].entities[e].entity,
            mandates |-> sections[i].entities[e].subprogrammes[b].mandates ] :
            b \in 1..Len(sections[i].entities[e].subprogrammes) } :
        e \in 1..Len(sections[i].entities) } : i \in 1..Len(sections) }

IsMatchingEntry(i) ==
    /\ lookupRec.has_recurrence
    /\ i \in 1..Len(lookupRec.recurrence_actions)
    /\ lookupRec.recurrence_actions[i].entity = lookupEntity
    /\ \A j \in 1..(i - 1) : lookupRec.recurrence_actions[j].entity # lookupEntity

C8_DropUsesFirstNewer ==
    "lookup" \in done =>
        \A i \in 1..Len(lookupRec.recurrence_actions) :
            LET a == lookupRec.recurrence_actions[i]
            IN  IsMatchingEntry(i) /\ a.newer_cited_symbols # << >> =>
                    /\ lookupResult.type = "DROP"
                    /\ lookupResult.newerSymbol = a.newer_cited_symbols[1]

\* The matching entry lists two newer symbols and has a latest_symbol too.
C8_Witness ==
    /\ "lookup" \in done
    /\ \E i \in 1..Len(lookupRec.recurrence_actions) :
         /\ IsMatchingEntry(i)
         /\ Len(lookupRec.recurrence_actions[i].newer_cited_symbols) = 2
         /\ lookupRec.recurrence_actions[i].latest_symbol = "A/RES/5"
         /\ lookupResult = [ type |-> "DROP", newerSymbol |-> "A/RES/4" ]

(***************************************************************************)
(* C9.  When the matching recurrence entry has an empty                    *)
(* newer_cited_symbols list, the action is UPDATE with latest_symbol if a  *)
(* latest_symbol exists and there is no action if it does not; when no     *)
(* entry matches the entity there is no action.                            *)
(***************************************************************************)
C9_UpdateOnlyWithLatest ==
    "lookup" \in done =>
        /\ (\A i \in 1..Len(lookupRec.recurrence_actions) : ~IsMatchingEntry(i))
               => lookupResult = NoAction
        /\ \A i \in 1..Len(lookupRec.recurrence_actions) :
             LET a == lookupRec.recurrence_actions[i]
             IN  IsMatchingEntry(i) /\ a.newer_cited_symbols = << >> =>
                     IF a.latest_symbol # NULL
                     THEN lookupResult = [ type |-> "UPDATE",
                                           newerSymbol |-> a.latest_symbol ]
                     ELSE lookupResult = NoAction

(***************************************************************************)
(* C2.  The preamble block and the segments together hold each paragraph   *)
(* that is not frontmatter and has non-blank text exactly once, and no     *)
(* other paragraph; the preamble and the concatenated segments each list   *)
(* their paragraphs in original order, the segments holding exactly the    *)
(* non-preambular ones.                                                    *)
(***************************************************************************)
RECURSIVE SegmentItems(_)
\* The items of the segments, concatenated in segment order.
SegmentItems(segs) ==
    IF segs = << >> THEN << >>
    ELSE Head(segs).items \o SegmentItems(Tail(segs))

\* Original indices of the paragraphs that are displayed at all.
DisplayedIndices ==
    { i \in 0..(Len(paragraphs) - 1) :
        paragraphs[i + 1].type # "frontmatter"
        /\ paragraphs[i + 1].text \notin { "", " " } }

StrictlyIncreasing(items) ==
    \A j, k \in 1..Len(items) : j < k => items[j].origIdx < items[k].origIdx

C2_SegmentsPartitionContent ==
    "segment" \in done =>
        LET body == SegmentItems(tree.segments)
            all == tree.preamble \o body
        IN  /\ \A i \in DisplayedIndices :
                 Cardinality({ k \in 1..Len(all) : all[k].origIdx = i }) = 1
            /\ \A k \in 1..Len(all) :
                 /\ all[k].origIdx \in DisplayedIndices
                 /\ all[k].p = paragraphs[all[k].origIdx + 1]
            /\ StrictlyIncreasing(tree.preamble)
            /\ StrictlyIncreasing(body)
            /\ { body[k].origIdx : k \in 1..Len(body) } =
                 { i \in DisplayedIndices :
                     paragraphs[i + 1].paragraph_type # "preambular" }

\* A preambular paragraph, a paragraph that is not displayed, and a body
\* that ends in a heading held back after a relevant paragraph.
C2_Witness ==
    /\ "segment" \in done
    /\ Len(paragraphs) = 4
    /\ Len(tree.preamble) = 1
    /\ Cardinality(DisplayedIndices) = 3
    /\ Len(tree.segments) = 2
    /\ tree.segments[1].type = "relevant"
    /\ tree.segments[2].items[1].p.type = "heading"

(***************************************************************************)
(* C11 as stated.  With an empty relevant-index set, whatever the          *)
(* paragraph list, there is exactly one segment, it is a gap, and it holds *)
(* the entire operative body.                                              *)
(***************************************************************************)
C11_OneGapWhenNoneRelevant ==
    ("segment" \in done /\ relevantIndices = {}) =>
        /\ Len(tree.segments) = 1
        /\ tree.segments[1].type = "gap"
        /\ tree.segments[1].items = Operative(paragraphs)

(***************************************************************************)
(* C11, amended.  With an empty relevant-index set: when the operative     *)
(* body is not empty there is exactly one segment, a gap with gap index 0  *)
(* that holds the entire operative body in order; when the operative body  *)
(* is empty (no paragraphs, or only preambular, frontmatter or blank ones) *)
(* there is no segment at all.                                             *)
(***************************************************************************)
C11_OneGapWhenBodyNonEmpty ==
    ("segment" \in done /\ relevantIndices = {}) =>
        IF Operative(paragraphs) = << >>
        THEN tree.segments = << >>
        ELSE /\ Len(tree.segments) = 1
             /\ tree.segments[1].type = "gap"
             /\ tree.segments[1].gapIndex = 0
             /\ tree.segments[1].items = Operative(paragraphs)

\* No relevant index, a preambular paragraph, and a body of a heading
\* between two paragraphs, all in the one gap.
C11_Witness ==
    /\ "segment" \in done
    /\ relevantIndices = {}
    /\ Len(tree.preamble) = 1
    /\ Len(Operative(paragraphs)) = 3
    /\ Operative(paragraphs)[2].p.type = "heading"
    /\ Len(tree.segments) = 1
    /\ Len(tree.segments[1].items) = 3

(***************************************************************************)
(* C19.  Segment type agrees with segment content: every operative         *)
(* paragraph whose original index is in the relevant set, heading or not,  *)
(* lies in a relevant segment; no gap segment contains a relevant          *)
(* paragraph; in a relevant segment every member that is not relevant is a *)
(* heading and the last member is relevant.                                *)
(***************************************************************************)
IsRelevantItem(it) == it.origIdx \in relevantIndices

C19_TypeAgreesWithContent ==
    "segment" \in done =>
        LET body == Operative(paragraphs)
            segs == tree.segments
        IN  /\ \A k \in 1..Len(body) :
                 IsRelevantItem(body[k]) =>
                     \E s \in 1..Len(segs) :
                        /\ segs[s].type = "relevant"
                        /\ \E j \in 1..Len(segs[s].items) :
                               segs[s].items[j] = body[k]
            /\ \A s \in 1..Len(segs) :
                 LET items == segs[s].items
                 IN  /\ segs[s].type \in { "relevant", "gap" }
                     /\ segs[s].type = "gap" =>
                            \A j \in 1..Len(items) : ~IsRelevantItem(items[j])
                     /\ segs[s].type = "relevant" =>
                            /\ \A j \in 1..Len(items) :
                                   \/ IsRelevantItem(items[j])
                                   \/ items[j].p.type = "heading"
                            /\ Len(items) > 0
                            /\ IsRelevantItem(items[Len(items)])

\* A relevant segment made of a buffered heading, a relevant heading and a
\* relevant paragraph, followed by a heading that is left over.
C19_Witness ==
    /\ "segment" \in done
    /\ Len(tree.segments) = 2
    /\ tree.segments[1].type = "relevant"
    /\ Len(tree.segments[1].items) = 3
    /\ ~IsRelevantItem(tree.segments[1].items[1])
    /\ tree.segments[1].items[2].p.type = "heading"
    /\ IsRelevantItem(tree.segments[1].items[2])
    /\ tree.segments[1].items[3].p.type = "paragraph"
    /\ tree.segments[2].type = "gap"
    /\ tree.segments[2].items[1].p.type = "heading"

(***************************************************************************)
(* C20.  The segments strictly alternate: no two consecutive segments have *)
(* the same type, and no segment is empty.                                 *)
(***************************************************************************)
C20_SegmentsAlternate ==
    "segment" \in done =>
        LET segs == tree.segments
        IN  /\ \A s \in 1..(Len(segs) - 1) : segs[s].type # segs[s + 1].type
            /\ \A s \in 1..Len(segs) : Len(segs[s].items) > 0

\* Gap, relevant, gap, the first gap holding two paragraphs pushed one after
\* the other.
C20_Witness ==
    /\ "segment" \in done
    /\ Len(tree.segments) = 3
    /\ tree.segments[1].type = "gap"
    /\ Len(tree.segments[1].items) = 2
    /\ tree.segments[2].type = "relevant"
    /\ tree.segments[3].type = "gap"

(***************************************************************************)
(* C18.  A heading that is not relevant is not placed in a segment at the  *)
(* moment it is read: it ends up in the same segment as, and immediately   *)
(* before, the next operative paragraph that is not a non-relevant heading *)
(* (a relevant segment if that paragraph is relevant, a gap otherwise);    *)
(* headings with no such paragraph after them are appended to the last     *)
(* segment if it is a gap and otherwise form a new trailing gap.  For      *)
(* [heading0, para1, para2, heading3, para4] with relevant indices {1,4}   *)
(* the result is [relevant:{0,1}], [gap:{2}], [relevant:{3,4}].            *)
(***************************************************************************)
\* A heading the loop buffers.
IsBuffered(it) == it.p.type = "heading" /\ ~IsRelevantItem(it)

RECURSIVE SegmentOf(_, _)
\* The number of the segment that holds the pos-th item of the body.
SegmentOf(segs, pos) ==
    IF pos <= Len(Head(segs).items) THEN 1
    ELSE 1 + SegmentOf(Tail(segs), pos - Len(Head(segs).items))

\* Position of the first item after k that is not buffered, 0 if none.
NextPlaced(body, k) ==
    LET later == { j \in (k + 1)..Len(body) : ~IsBuffered(body[j]) }
    IN  IF later = {} THEN 0
        ELSE CHOOSE j \in later : \A i \in later : j <= i

\* Position of the last item that is not buffered, 0 if none.
LastPlaced(body) ==
    LET placed == { j \in 1..Len(body) : ~IsBuffered(body[j]) }
    IN  IF placed = {} THEN 0
        ELSE CHOOSE j \in placed : \A i \in placed : i <= j

OrigIndices(items) == [ j \in 1..Len(items) |-> items[j].origIdx ]

C18_HeadingsJoinNextParagraph ==
    "segment" \in done =>
        LET body == Operative(paragraphs)
            segs == tree.segments
            st0 == [ segments |-> << >>, gapIndex |-> 0,
                     pendingHeadings |-> << >> ]
        IN  /\ SegmentItems(segs) = body
            /\ \A k \in 1..Len(body) :
                 IsBuffered(body[k]) =>
                     LET n == NextPlaced(body, k)
                         a == LastPlaced(body)
                         read == SegmentLoop(st0, SubSeq(body, 1, k),
                                             relevantIndices)
                         last == segs[Len(segs)]
                     IN  /\ Len(read.pendingHeadings) > 0
                         /\ body[k] = read.pendingHeadings[Len(read.pendingHeadings)]
                         /\ \A j \in 1..Len(SegmentItems(read.segments)) :
                                SegmentItems(read.segments)[j] # body[k]
                         /\ n # 0 =>
                              /\ SegmentOf(segs, k) = SegmentOf(segs, n)
                              /\ segs[SegmentOf(segs, n)].type =
                                   IF IsRelevantItem(body[n]) THEN "relevant"
                                   ELSE "gap"
                         /\ n = 0 =>
                              /\ SegmentOf(segs, k) = Len(segs)
                              /\ last.type = "gap"
                              /\ IF a # 0 /\ ~IsRelevantItem(body[a])
                                 THEN SegmentOf(segs, a) = Len(segs)
                                 ELSE Len(last.items) = Len(body) - a
            /\ ( /\ Len(paragraphs) = 5
                 /\ [ i \in 1..5 |-> paragraphs[i].type ] =
                      << "heading", "paragraph", "paragraph", "heading",
                         "paragraph" >>
                 /\ relevantIndices = { 1, 4 } ) =>
                    /\ [ s \in 1..Len(segs) |-> segs[s].type ] =
                         << "relevant", "gap", "relevant" >>
                    /\ [ s \in 1..Len(segs) |-> OrigIndices(segs[s].items) ] =
                         << << 0, 1 >>, << 2 >>, << 3, 4 >> >>

\* The scenario of the claim, segmented.
C18_Witness ==
    /\ "segment" \in done
    /\ Len(paragraphs) = 5
    /\ [ i \in 1..5 |-> paragraphs[i].type ] =
         << "heading", "paragraph", "paragraph", "heading", "paragraph" >>
    /\ relevantIndices = { 1, 4 }
    /\ Len(tree.segments) = 3
    /\ OrigIndices(tree.segments[3].items) = << 3, 4 >>

(***************************************************************************)
(* C12.  The count the calculator reports for each entity e other than the *)
(* focal one is the number of entries of the flattened list (background    *)
(* mandates, then the mandates of every legislative bucket, a symbol found *)
(* in two lists being two entries) whose allEntities list contains e; the  *)
(* focal entity is never reported and every reported count is at least 1.  *)
(***************************************************************************)
\* The entries of the flattened list whose allEntities list contains e.
EntriesCiting(e) ==
    LET all == calcBackground \o FlattenBuckets(calcLegislative)
    IN  { k \in 1..Len(all) :
            \E j \in 1..Len(all[k].allEntities) : all[k].allEntities[j] = e }

\* The symbols of the mandates whose allEntities list contains e.
SymbolsCiting(e) ==
    LET all == calcBackground \o FlattenBuckets(calcLegislative)
    IN  { all[k].symbol : k \in EntriesCiting(e) }

\* The counts reported for e, one per output entry naming e.
ReportedCounts(e) ==
    { k \in 1..Len(coCitingEntities) : coCitingEntities[k].entity = e }

C12_CountsPerOccurrence ==
    "cociting" \in done =>
        /\ \A e \in CalcEntities \ { calcEntity } :
             IF EntriesCiting(e) = {}
             THEN ReportedCounts(e) = {}
             ELSE /\ Cardinality(ReportedCounts(e)) = 1
                  /\ \A k \in ReportedCounts(e) :
                       coCitingEntities[k].count = Cardinality(EntriesCiting(e))
        /\ \A k \in 1..Len(coCitingEntities) :
             /\ coCitingEntities[k].entity \in CalcEntities \ { calcEntity }
             /\ coCitingEntities[k].count >= 1

\* One symbol both in the background list and in a legislative bucket,
\* citing the focal entity and one other, which is reported with count 2.
C12_Witness ==
    /\ "cociting" \in done
    /\ calcEntity = "UNDP"
    /\ Len(calcBackground) = 1
    /\ Len(calcLegislative) = 1
    /\ Len(calcLegislative[1].mandates) = 1
    /\ calcLegislative[1].mandates[1].symbol = calcBackground[1].symbol
    /\ calcBackground[1].allEntities = << "UNDP", "UNEP" >>
    /\ coCitingEntities = << [ entity |-> "UNEP", count |-> 2 ] >>

(***************************************************************************)
(* C13 as stated.  For every other entity that appears in any mandate's    *)
(* allEntities list the calculator reports the number of distinct mandates *)
(* (distinct document symbols) it shares with the focal entity.            *)
(***************************************************************************)
C13_CountsDistinctMandates ==
    "cociting" \in done =>
        \A e \in CalcEntities \ { calcEntity } :
            EntriesCiting(e) # {} =>
                \E k \in 1..Len(coCitingEntities) :
                    /\ coCitingEntities[k].entity = e
                    /\ coCitingEntities[k].count = Cardinality(SymbolsCiting(e))

(***************************************************************************)
(* C14.  A paragraph fetch that fails (rejected request, non-OK response,  *)
(* unparsable body) or returns nothing (null or an empty array) leaves no  *)
(* rejection unhandled and puts the view in no error state: from then on   *)
(* the view's paragraph list is the empty array, loading is false, and the *)
(* panel of the view, whenever it is open, shows "No paragraph data        *)
(* available".                                                             *)
(***************************************************************************)
FailedOrEmpty == { "rejected", "not-ok", "unparsable", "null", "empty" }

C14_FailedFetchShowsNoData ==
    \A v \in DOMAIN views :
        settled[v].response \in FailedOrEmpty =>
            /\ views[v].paragraphs = ArrayOf(<< >>)
            /\ views[v].loading = FALSE
            /\ PanelContent(views[v]) = "No paragraph data available"
            /\ ~settled[v].unhandled
            /\ DOMAIN views[v] = { "open", "paragraphs", "loading" }

\* The fetch of an open view has just been rejected.
C14_Witness ==
    /\ lastEvent.kind = "settle"
    /\ settled[lastEvent.view].response = "rejected"
    /\ views[lastEvent.view].open
    /\ views[lastEvent.view].paragraphs = ArrayOf(<< >>)

(***************************************************************************)
(* C15.  With several views, whatever the interleaving of open, close and  *)
(* fetch-completion events: when the fetch of a view that has been closed  *)
(* in the meantime resolves or fails, the step changes only that view's    *)
(* paragraphs and loading (loading becomes false, the view stays closed)   *)
(* and leaves every other view's state, and its fetch, as they were.       *)
(***************************************************************************)
C15_SettleTouchesOwnViewOnly ==
    [][ \A v \in DOMAIN views :
          (v \in pending /\ v \notin pending' /\ ~views[v].open) =>
              /\ views'[v].loading = FALSE
              /\ views'[v].open = FALSE
              /\ \A w \in DOMAIN views \ { v } :
                    /\ views'[w] = views[w]
                    /\ (w \in pending') = (w \in pending)
                    /\ fetches'[w] = fetches[w]
                    /\ settled'[w] = settled[w] ]_vars

\* The fetch of a closed view has just settled while another view is open
\* and still loading.
C15_Witness ==
    /\ lastEvent.kind = "settle"
    /\ ~views[lastEvent.view].open
    /\ ~views[lastEvent.view].loading
    /\ \E w \in DOMAIN views \ { lastEvent.view } :
          /\ views[w].open
          /\ views[w].loading
          /\ w \in pending

(***************************************************************************)
(* C17.  A view issues no paragraph fetch before it is first opened and at *)
(* most one over its whole lifetime: a fetch is in flight only while the   *)
(* view is loading, which keeps a second one from starting, and once the   *)
(* fetch has settled, with data, empty or failed, no further one starts,   *)
(* reopening included.                                                     *)
(***************************************************************************)
C17_AtMostOneFetch ==
    \A v \in DOMAIN views :
        /\ fetches[v] <= 1
        /\ v \notin opened => fetches[v] = 0
        /\ v \in pending => (views[v].loading /\ fetches[v] = 1)
        /\ settled[v].response # "none" => (v \notin pending /\ fetches[v] = 1)

\* A view whose fetch failed has been closed and is now open again, with
\* its one fetch behind it.
C17_Witness ==
    /\ lastEvent.kind = "open"
    /\ settled[lastEvent.view].response = "rejected"
    /\ views[lastEvent.view].open
    /\ fetches[lastEvent.view] = 1
    /\ lastEvent.view \notin pending

(***************************************************************************)
(* C21.  With g gap segments in the output, their gap indices, taken in    *)
(* segment order, are 0, 1, ..., g-1, a trailing gap made only of leftover *)
(* headings included; relevant segments carry no gap index.                *)
(***************************************************************************)
\* The numbers of the gap segments among the first s segments.
GapsUpTo(segs, s) == { t \in 1..s : segs[t].type = "gap" }

C21_GapIndicesSequential ==
    "segment" \in done =>
        LET segs == tree.segments
        IN  \A s \in 1..Len(segs) :
               IF segs[s].type = "gap"
               THEN /\ "gapIndex" \in DOMAIN segs[s]
                    /\ segs[s].gapIndex = Cardinality(GapsUpTo(segs, s)) - 1
               ELSE "gapIndex" \notin DOMAIN segs[s]

\* Gap 0, a relevant segment, and gap 1 made only of a leftover heading.
C21_Witness ==
    /\ "segment" \in done
    /\ Len(tree.segments) = 3
    /\ tree.segments[1].type = "gap"
    /\ tree.segments[1].gapIndex = 0
    /\ tree.segments[2].type = "relevant"
    /\ tree.segments[3].type = "gap"
    /\ tree.segments[3].gapIndex = 1
    /\ Len(tree.segments[3].items) = 1
    /\ tree.segments[3].items[1].p.type = "heading"

(***************************************************************************)
(* C22.  The co-citing entities are listed in non-increasing order of      *)
(* count, and entities of equal count appear in the order in which they    *)
(* were first met while scanning the flattened mandate list, mandate by    *)
(* mandate and, within a mandate, along its allEntities list.              *)
(***************************************************************************)
\* Where e is first met in the scan: <<entry of the flattened list,
\* position in that entry's allEntities>>.
FirstMet(e) ==
    LET all == calcBackground \o FlattenBuckets(calcLegislative)
        k == CHOOSE i \in EntriesCiting(e) : \A j \in EntriesCiting(e) : i <= j
        pos == CHOOSE j \in 1..Len(all[k].allEntities) :
                   all[k].allEntities[j] = e
    IN  << k, pos >>

MetBefore(a, b) ==
    \/ FirstMet(a)[1] < FirstMet(b)[1]
    \/ FirstMet(a)[1] = FirstMet(b)[1] /\ FirstMet(a)[2] < FirstMet(b)[2]

C22_SortedByCountStable ==
    "cociting" \in done =>
        \A i, j \in 1..Len(coCitingEntities) :
            i < j =>
                /\ coCitingEntities[i].count >= coCitingEntities[j].count
                /\ EntriesCiting(coCitingEntities[i].entity) # {}
                /\ EntriesCiting(coCitingEntities[j].entity) # {}
                /\ coCitingEntities[i].count = coCitingEntities[j].count =>
                       MetBefore(coCitingEntities[i].entity,
                                 coCitingEntities[j].entity)

\* Two entities tied at count 2, listed as they were met: UNEP, met in the
\* first mandate, before DESA, met in the second.
C22_Witness ==
    /\ "cociting" \in done
    /\ calcEntity = "UNDP"
    /\ coCitingEntities = << [ entity |-> "UNEP", count |-> 2 ],
                             [ entity |-> "DESA", count |-> 2 ] >>
    /\ Len(calcBackground) = 2
    /\ calcBackground[1].allEntities = << "UNDP", "UNEP" >>
    /\ calcBackground[2].allEntities = << "UNDP", "DESA" >>

(***************************************************************************)
(* C25.  Within each Budget Part of the hierarchy the entities are listed  *)
(* in ascending alphabetical order of entity code, and each entity code    *)
(* appears exactly once in that part.                                      *)
(***************************************************************************)
\* Alphabetical order of the entity codes of the model.
CodeBefore(a, b) ==
    \/ a = "DESA" /\ b \in { "UNDP", "UNEP" }
    \/ a = "UNDP" /\ b = "UNEP"

C25_EntitiesAlphabeticalUnique ==
    "parts" \in done =>
        \A i \in 1..Len(parts) :
            LET es == parts[i].entities
            IN  /\ \A j, k \in 1..Len(es) :
                     j < k => CodeBefore(es[j].entity, es[k].entity)
                /\ \A rc \in PlacedContexts :
                     PartKey(Ctx(rc)) = parts[i].part =>
                         Cardinality({ j \in 1..Len(es) :
                                         es[j].entity = Ctx(rc).entity }) = 1

\* A part whose first row names UNEP and a later row UNDP, listed as UNDP,
\* UNEP, UNEP having a second row of its own.
C25_Witness ==
    /\ "parts" \in done
    /\ Len(rows) = 3
    /\ rows[1].entity = "UNEP"
    /\ rows[2].entity = "UNDP"
    /\ rows[3].entity = "UNEP"
    /\ rows[1].budget_part = rows[2].budget_part
    /\ rows[1].budget_part = rows[3].budget_part
    /\ Len(parts) = 1
    /\ Len(parts[1].entities) = 2
    /\ parts[1].entities[1].entity = "UNDP"

(***************************************************************************)
(* C26.  A citation context is background exactly when its part-in-        *)
(* document field is the literal "Mandates and background"; null and any   *)
(* other value, a different letter case included, are legislative.  A      *)
(* legislative context is filed under its sub-programme if it has one      *)
(* (null and "" count as none), otherwise under its component if it has    *)
(* one, otherwise under "Legislative mandates".  No background context is  *)
(* filed in a legislative bucket and no legislative context in the         *)
(* background list.                                                        *)
(***************************************************************************)
IsBackgroundContext(ci) == ci.part_in_document = "Mandates and background"

BucketOf(ci) ==
    IF ci.sub_programme \notin { NULL, "" } THEN ci.sub_programme
    ELSE IF ci.component \notin { NULL, "" } THEN ci.component
    ELSE "Legislative mandates"

\* The context belongs to the cell.
FiledIn(rc, cell) ==
    /\ cell.part = OrElse(Ctx(rc).budget_part, "Other")
    /\ cell.entity = Ctx(rc).entity
    /\ cell.background = IsBackgroundContext(Ctx(rc))
    /\ cell.background \/ cell.key = BucketOf(Ctx(rc))

HasSymbol(cell, symbol) ==
    \E k \in 1..Len(cell.mandates) : cell.mandates[k].symbol = symbol

C26_BackgroundOrBucket ==
    "parts" \in done =>
        /\ \A rc \in PlacedContexts :
             \E cell \in HierarchyCells :
                 FiledIn(rc, cell) /\ HasSymbol(cell, SymbolOf(rc))
        /\ \A cell \in HierarchyCells :
             \A k \in 1..Len(cell.mandates) :
                 /\ cell.mandates[k].isBackground = cell.background
                 /\ \E rc \in PlacedContexts :
                        /\ FiledIn(rc, cell)
                        /\ SymbolOf(rc) = cell.mandates[k].symbol

\* One document cited as background, with a null part under a component,
\* and with a differently cased part under a sub-programme.
C26_Witness ==
    /\ "parts" \in done
    /\ \E a, b, c \in PlacedContexts :
          /\ IsBackgroundContext(Ctx(a))
          /\ Ctx(b).part_in_document = NULL
          /\ Ctx(b).sub_programme = ""
          /\ Ctx(b).component = "Component A"
          /\ Ctx(c).part_in_document = "mandates and background"
          /\ Ctx(c).sub_programme = "1"
    /\ Len(parts) = 1
    /\ Len(parts[1].entities[1].backgroundMandates) = 1
    /\ Len(parts[1].entities[1].legislativeMandates) = 2

(***************************************************************************)
(* C28 as stated.  For every record and every citation context of it with  *)
(* a non-null entity, the hierarchy holds a mandate with the record's      *)
(* symbol in the cell that context determines; every mandate of a cell has *)
(* the symbol of a record with a context mapping to that cell; and every   *)
(* Budget Part and every entity of the hierarchy holds a mandate.          *)
(***************************************************************************)
\* Every mandate of every cell comes from a context filed in the cell, and
\* no part and no entity is empty.
NothingInvented ==
    /\ \A cell \in HierarchyCells :
         \A k \in 1..Len(cell.mandates) :
             \E rc \in Contexts :
                 FiledIn(rc, cell) /\ SymbolOf(rc) = cell.mandates[k].symbol
    /\ \A i \in 1..Len(parts) :
         /\ Len(parts[i].entities) > 0
         /\ \A e \in 1..Len(parts[i].entities) :
              \E cell \in HierarchyCells :
                  /\ cell.part = parts[i].part
                  /\ cell.entity = parts[i].entities[e].entity
                  /\ Len(cell.mandates) > 0

C28_NonNullEntityCitationsKept ==
    "parts" \in done =>
        /\ \A rc \in Contexts :
             Ctx(rc).entity # NULL =>
                 \E cell \in HierarchyCells :
                     FiledIn(rc, cell) /\ HasSymbol(cell, SymbolOf(rc))
        /\ NothingInvented

(***************************************************************************)
(* C28, amended.  For every record and every citation context of it whose  *)
(* entity is neither null nor the empty string, the hierarchy holds a      *)
(* mandate with the record's symbol in the cell that context determines; a *)
(* context whose entity is null or empty is filed nowhere and creates no   *)
(* part; every mandate of a cell has the symbol of a record with a context *)
(* mapping to that cell; and every Budget Part and every entity of the     *)
(* hierarchy holds a mandate.                                              *)
(***************************************************************************)
C28_NamedEntityCitationsKept ==
    "parts" \in done =>
        /\ \A rc \in Contexts :
             IF Ctx(rc).entity \notin { NULL, "" }
             THEN \E cell \in HierarchyCells :
                      FiledIn(rc, cell) /\ HasSymbol(cell, SymbolOf(rc))
             ELSE \A cell \in HierarchyCells : cell.entity # Ctx(rc).entity
        /\ NothingInvented

\* Two documents cited by one entity are both in the hierarchy, while a
\* context with an empty entity under another budget part leaves no trace.
C28_Witness ==
    /\ "parts" \in done
    /\ Len(parts) = 1
    /\ \E rc \in Contexts :
          Ctx(rc).entity = "" /\ Ctx(rc).budget_part # parts[1].part
    /\ \E a, b \in PlacedContexts :
          /\ SymbolOf(a) # SymbolOf(b)
          /\ Ctx(a).entity = Ctx(b).entity
    /\ Len(parts[1].entities) = 1
    /\ Len(parts[1].entities[1].backgroundMandates)
         + Len(parts[1].entities[1].legislativeMandates) >= 2

(***************************************************************************)
(* C23.  All gaps and the preamble block start collapsed; a toggle of gap  *)
(* k flips the expansion of gap k and leaves that of every other gap and   *)
(* of the preamble as it was, so that a second toggle of k restores the    *)
(* state before the first; a toggle of the preamble flips the preamble     *)
(* only; and no toggle changes the segmentation.                           *)
(***************************************************************************)
C23_TogglesAreLocal ==
    /\ [](lastToggle.control = "none" => (expandedGaps = {} /\ ~showPreamble))
    /\ [][ "segment" \in done =>
             /\ tree' = tree
             /\ lastToggle'.control = "gap" =>
                  LET k == lastToggle'.index
                  IN  /\ (k \in expandedGaps') # (k \in expandedGaps)
                      /\ \A j \in (expandedGaps \cup expandedGaps') \ { k } :
                             (j \in expandedGaps') = (j \in expandedGaps)
                      /\ showPreamble' = showPreamble
             /\ lastToggle'.control = "preamble" =>
                  /\ showPreamble' # showPreamble
                  /\ expandedGaps' = expandedGaps ]_vars

\* Gap 1 was toggled last and is collapsed again, while gap 0 and the
\* preamble stay expanded.
C23_Witness ==
    /\ "segment" \in done
    /\ lastToggle = [ control |-> "gap", index |-> 1 ]
    /\ expandedGaps = { 0 }
    /\ showPreamble
    /\ Len(tree.segments) = 3

(***************************************************************************)
(* C27.  With mandates none of which lists an entity twice, after any      *)
(* sequence of chip clicks and clear clicks: the filter entity is none or  *)
(* one of the co-citing entities; while a filter is active the number of   *)
(* mandates displayed equals the count on that entity's chip and is at     *)
(* least one, so "No mandates match this filter" is never shown; a click   *)
(* on the active chip clears the filter, a click on another chip selects   *)
(* it; and neither the total nor the mandate lists change.                 *)
(***************************************************************************)
\* The count shown on the chip of e.
ChipCounts(e) ==
    { coCitingEntities[k].count :
        k \in { i \in 1..Len(coCitingEntities) : coCitingEntities[i].entity = e } }

C27_FilterShowsChipCount ==
    /\ []( "cociting" \in done =>
             /\ filterEntity = NULL \/ ChipCounts(filterEntity) # {}
             /\ filterEntity # NULL =>
                  /\ ChipCounts(filterEntity) =
                       { FilteredTotal(calcBackground, calcLegislative,
                                       filterEntity) }
                  /\ FilteredTotal(calcBackground, calcLegislative,
                                   filterEntity) >= 1
                  /\ ~ShowsNoMatch(calcBackground, calcLegislative,
                                   filterEntity)
             /\ lastClick.control = "chip" =>
                  filterEntity = IF lastClick.before = lastClick.entity
                                 THEN NULL ELSE lastClick.entity
             /\ lastClick.control = "clear" => filterEntity = NULL )
    /\ [][ "cociting" \in done =>
             /\ calcBackground' = calcBackground
             /\ calcLegislative' = calcLegislative
             /\ coCitingEntities' = coCitingEntities
             /\ TotalMandates(calcBackground', calcLegislative') =
                  TotalMandates(calcBackground, calcLegislative) ]_vars

\* The second of two chips was clicked while the first was active; it is
\* active now and shows one mandate out of three.
C27_Witness ==
    /\ "cociting" \in done
    /\ Len(coCitingEntities) = 2
    /\ filterEntity = coCitingEntities[2].entity
    /\ lastClick.control = "chip"
    /\ lastClick.before = coCitingEntities[1].entity
    /\ coCitingEntities[2].count = 1
    /\ FilteredTotal(calcBackground, calcLegislative, filterEntity) = 1
    /\ TotalMandates(calcBackground, calcLegislative) = 3

(***************************************************************************)
(* The relevance providers of the document detail view.                    *)
(***************************************************************************)

\* The entity chips of the detail view.
allEntities == { "UNDP", "UNEP", "DESA" }

\* entityLongMap?.[ent]: the long name of an entity, an empty one, or
\* undefined.
entityLongMap(ent) ==
    CASE ent = "UNDP" -> "Development Programme"
      [] ent = "UNEP" -> ""
      [] OTHER -> NULL

\* The paragraphs of the model: a paragraph naming UNDP, one naming two
\* entities in either case, one holding a longer word and a long name, and a
\* heading naming UNDP.
MentionKinds ==
    { [ type |-> "paragraph", text |-> "UNDP shall report" ],
      [ type |-> "paragraph", text |-> "undp and UNEP" ],
      [ type |-> "paragraph", text |-> "UNDPs Development Programme" ],
      [ type |-> "heading",   text |-> "UNDP" ] }

\* new RegExp(`\\b(term)\\b`, 'i').test(text): the text holds the term as a
\* whole word, in any case.
WholeWord(text, term) ==
    << text, term >> \in
        { << "UNDP shall report", "UNDP" >>,
          << "undp and UNEP", "UNDP" >>,
          << "undp and UNEP", "UNEP" >>,
          << "UNDPs Development Programme", "Development Programme" >>,
          << "UNDP", "UNDP" >> }

\* const terms = [ent]; if (entLong) terms.push(entLong)
MentionTerms(ent, entLong) ==
    IF Truthy(entLong) THEN << ent, entLong >> ELSE << ent >>

\* pattern.test(text) for the alternation of the terms.
PatternTest(terms, text) ==
    \E t \in 1..Len(terms) : WholeWord(text, terms[t])

RECURSIVE MentionsFrom(_, _, _, _)
\* paras.forEach((p, i) => { if (...) indices.add(i) }) from position i on.
MentionsFrom(paras, terms, i, indices) ==
    IF i > Len(paras) THEN indices
    ELSE LET p == paras[i]
         IN  MentionsFrom(paras, terms, i + 1,
                 IF Truthy(p.text) /\ p.type # "heading"
                    /\ PatternTest(terms, p.text)
                 THEN indices \cup { i - 1 }
                 ELSE indices)

\* computeMentionIndices; the indices are the 0-based ones of the source.
computeMentionIndices(paras, ent, entLong) ==
    MentionsFrom(paras, MentionTerms(ent, entLong), 1, {})

\* Does the record hold an entry under the key ent.
HasRelevance(relevance, ent) == \E x \in relevance : x.entity = ent

\* allEntityRelevance[ent], for a key the record holds.
RelevanceOf(relevance, ent) == CHOOSE x \in relevance : x.entity = ent

\* new Set(relevance.indices)
IndexSet(indices) == { indices[k] : k \in 1..Len(indices) }

\* Both providers at once: the entry's indices together with the mentions.
getEntityRelevanceMerged(relevance, paras, ent, entLong) ==
    IF HasRelevance(relevance, ent)
    THEN LET r == RelevanceOf(relevance, ent)
         IN  [ indices |-> IndexSet(r.indices)
                             \cup computeMentionIndices(paras, ent, entLong),
               aiComments |-> IF r.ai_comments.isNull THEN {}
                              ELSE r.ai_comments.entries ]
    ELSE [ indices |-> computeMentionIndices(paras, ent, entLong),
           aiComments |-> {} ]

\* getEntityRelevance: the precomputed entry when there is one, and the
\* mentions with no annotations otherwise.
getEntityRelevance(relevance, paras, ent, entLong) ==
    IF HasRelevance(relevance, ent)
    THEN LET r == RelevanceOf(relevance, ent)
         IN  [ indices |-> IndexSet(r.indices),
               aiComments |-> IF r.ai_comments.isNull THEN {}
                              ELSE r.ai_comments.entries ]
    ELSE [ indices |-> computeMentionIndices(paras, ent, entLong),
           aiComments |-> {} ]

\* const selectedRelevance = paragraphs && selectedEntity ? ... : empty
SelectedRelevance(relevance, paras, ent) ==
    IF ~paras.isNull /\ Truthy(ent)
    THEN getEntityRelevance(relevance, paras.items, ent, entityLongMap(ent))
    ELSE [ indices |-> {}, aiComments |-> {} ]

\* The precomputed entries of the model: an index list that is empty, one
\* that repeats an index, one out of order; annotations that are missing,
\* empty, or given for one index.
RelevanceKinds ==
    { [ indices |-> << >>, ai_comments |-> [ isNull |-> TRUE, entries |-> {} ] ],
      [ indices |-> << >>,
        ai_comments |-> [ isNull |-> FALSE,
                          entries |-> { [ index |-> 0, comment |-> "note" ] } ] ],
      [ indices |-> << 1, 1 >>,
        ai_comments |-> [ isNull |-> FALSE, entries |-> {} ] ],
      [ indices |-> << 2, 0 >>,
        ai_comments |-> [ isNull |-> FALSE,
                          entries |-> { [ index |-> 2, comment |-> "note" ] } ] ] }

\* The entry kind k filed under the key ent.
EntryFor(ent, k) ==
    [ entity |-> ent, indices |-> k.indices, ai_comments |-> k.ai_comments ]

\* The detail view after its first render: the paragraphs are not fetched
\* yet, and the selected entity is the entity prop or null.
InitRelevance ==
    /\ \E served \in SeqUpTo(MentionKinds, MaxParas) :
          relParagraphs = [ isNull |-> TRUE, items |-> served ]
    /\ \E entity \in allEntities \cup { NULL, "" } :
          relEntity = OrElse(entity, NULL)
    /\ relEntityLong = IF Truthy(relEntity) THEN entityLongMap(relEntity)
                       ELSE NULL
    /\ \E keys \in SUBSET { "UNDP", "UNEP" } :
          \E kind \in [ keys -> RelevanceKinds ] :
             allEntityRelevance = { EntryFor(e, kind[e]) : e \in keys }
    /\ selectedRelevance = [ indices |-> {}, aiComments |-> {} ]
    /\ done = {}
    /\ ToggleIdle /\ FilterIdle /\ PageIdle /\ OverviewIdle
    /\ PipelineIdle
    /\ LookupIdle
    /\ TreeIdle
    /\ CalcIdle
    /\ ViewIdle

\* The fetch of the paragraphs settles: setParagraphs(parasData || []), and
\* the render that follows.
ParagraphsFetched ==
    /\ relParagraphs.isNull
    /\ relParagraphs' = [ relParagraphs EXCEPT !.isNull = FALSE ]
    /\ selectedRelevance' =
          SelectedRelevance(allEntityRelevance, relParagraphs', relEntity)
    /\ UNCHANGED << relEntity, relEntityLong, allEntityRelevance, done,
                    pipelineVars, lookupVars, treeVars, calcVars, viewVars,
                    toggleVars, filterVars, pageVars, overviewVars >>

\* A click on the chip of entity e: setSelectedEntity(e), and the render
\* that follows.
SelectEntity(e) ==
    /\ relEntity' = e
    /\ relEntityLong' = entityLongMap(e)
    /\ selectedRelevance' =
          SelectedRelevance(allEntityRelevance, relParagraphs, e)
    /\ UNCHANGED << relParagraphs, allEntityRelevance, done,
                    pipelineVars, lookupVars, treeVars, calcVars, viewVars,
                    toggleVars, filterVars, pageVars, overviewVars >>

\* A click on the "all" chip: setSelectedEntity(null).
SelectNoEntity ==
    /\ relEntity' = NULL
    /\ relEntityLong' = NULL
    /\ selectedRelevance' =
          SelectedRelevance(allEntityRelevance, relParagraphs, NULL)
    /\ UNCHANGED << relParagraphs, allEntityRelevance, done,
                    pipelineVars, lookupVars, treeVars, calcVars, viewVars,
                    toggleVars, filterVars, pageVars, overviewVars >>

NextRelevance ==
    \/ ParagraphsFetched
    \/ \E e \in allEntities : SelectEntity(e)
    \/ SelectNoEntity

SpecRelevance == InitRelevance /\ [][NextRelevance]_vars

\* The 0-based indices of the displayed non-heading paragraphs whose text
\* names the entity, by its code or its long name, as a whole word.
NameMatches(paras, ent) ==
    { i \in 0..(Len(paras) - 1) :
        /\ paras[i + 1].type # "heading"
        /\ \/ WholeWord(paras[i + 1].text, ent)
           \/ /\ Truthy(entityLongMap(ent))
              /\ WholeWord(paras[i + 1].text, entityLongMap(ent)) }

\* C24: once the paragraphs are fetched and an entity is selected, the
\* relevance shown comes from one provider. With a precomputed entry for the
\* entity, the indices are the entry's indices and the annotations the
\* entry's annotations (none when it has none), whatever the text holds;
\* with no entry, the indices are those of the paragraphs naming the entity
\* and there are no annotations.
C24_OneProviderByAvailability ==
    (~relParagraphs.isNull /\ Truthy(relEntity)) =>
        IF \E x \in allEntityRelevance : x.entity = relEntity
        THEN \E x \in allEntityRelevance :
                /\ x.entity = relEntity
                /\ selectedRelevance.indices
                     = { x.indices[k] : k \in 1..Len(x.indices) }
                /\ selectedRelevance.aiComments
                     = IF x.ai_comments.isNull THEN {}
                       ELSE x.ai_comments.entries
        ELSE /\ selectedRelevance.indices
                  = NameMatches(relParagraphs.items, relEntity)
             /\ selectedRelevance.aiComments = {}

\* UNDP is selected and has an entry with no indices and one annotation,
\* while two fetched paragraphs name UNDP: nothing is marked relevant.
C24_Witness ==
    /\ ~relParagraphs.isNull
    /\ relEntity = "UNDP"
    /\ \E x \in allEntityRelevance :
          /\ x.entity = "UNDP"
          /\ x.indices = << >>
          /\ ~x.ai_comments.isNull
          /\ x.ai_comments.entries # {}
    /\ Cardinality(NameMatches(relParagraphs.items, "UNDP")) >= 2
    /\ selectedRelevance.indices = {}
    /\ selectedRelevance.aiComments # {}

(***************************************************************************)
(* Drill-down by entity code: EntityPage.                                  *)
(***************************************************************************)

\* Rows of one document cited by two entities under two budget parts or
\* none, and of a second document cited by them under the second part.
PageRows ==
    { Row("A/RES/1", e, NULL, NULL, "3", NULL, NULL, bp) :
        e \in EntityCodes,
        bp \in { "Political affairs", "International justice and law", NULL } }
    \cup
    { Row("A/RES/2", e, NULL, NULL, "3", NULL, NULL,
          "International justice and law") : e \in EntityCodes }

\* The entity segments requested: two codes of the data, one of them also
\* with a percent-encoded letter, and a code no row has.
EntityParams == { "UNDP", "UNEP", "UN%45P", "DESA" }

\* decodeURIComponent over the segments of the model: %45 is the letter E,
\* and a segment without escapes is returned as it is.
decodeURIComponent(param) ==
    CASE param = "UN%45P" -> "UNEP"
      [] OTHER -> param

\* part.entities.find((e) => e.entity === entityCode), as the position of
\* the first entry with that code, or 0.
FindIndexOf(entities, entityCode) ==
    LET hits == { j \in 1..Len(entities) : entities[j].entity = entityCode }
    IN  IF hits = {} THEN 0
        ELSE CHOOSE j \in hits : \A k \in hits : j <= k

RECURSIVE FindEntityLast(_, _, _, _)
\* The loop without its break: a later part replaces an earlier one.
FindEntityLast(partList, entityCode, i, result) ==
    IF i > Len(partList) THEN result
    ELSE LET j == FindIndexOf(partList[i].entities, entityCode)
         IN  FindEntityLast(partList, entityCode, i + 1,
                 IF j > 0
                 THEN [ found      |-> TRUE,
                        partName   |-> partList[i].part,
                        entityData |-> << partList[i].entities[j] >> ]
                 ELSE result)

RECURSIVE FindEntity(_, _, _, _)
\* for (const part of parts) { found = ...; if (found) { ...; break } } from
\* part i on, and notFound() when the loop ends with nothing.
FindEntity(partList, entityCode, i, result) ==
    IF i > Len(partList) THEN result
    ELSE LET j == FindIndexOf(partList[i].entities, entityCode)
         IN  IF j > 0
             THEN [ found      |-> TRUE,
                    partName   |-> partList[i].part,
                    entityData |-> << partList[i].entities[j] >> ]
             ELSE FindEntity(partList, entityCode, i + 1, result)

\* What the loop starts from: entityData = null, partName = null.
NothingFound == [ found |-> FALSE, partName |-> NULL, entityData |-> << >> ]

InitPage ==
    /\ rows \in SeqUpTo(PageRows, MaxRows)
    /\ records = << >>
    /\ parts = << >>
    /\ sections = << >>
    /\ done = {}
    /\ PageIdle
    /\ ToggleIdle /\ FilterIdle /\ RelIdle /\ OverviewIdle
    /\ PipelineIdle
    /\ TreeIdle
    /\ CalcIdle
    /\ ViewIdle

\* One request of the entity page: the segment is decoded, getData() fetches
\* the records and builds the hierarchy, and the entity is looked up.
EntityPage(param) ==
    /\ entityParam' = param
    /\ records' = fetchPPBRecords(rows)
    /\ parts' = transformPPBData(records', getBudgetPartsMeta)
    /\ pageResult' = FindEntity(parts', decodeURIComponent(param), 1,
                                NothingFound)
    /\ done' = done \cup { "page" }
    /\ UNCHANGED << rows, sections, lookupVars, treeVars, calcVars, viewVars,
                    toggleVars, filterVars, relVars, overviewVars >>

NextPage == \E param \in EntityParams : EntityPage(param)

SpecPage == InitPage /\ [][NextPage]_vars

\* The positions of the Budget Parts that hold an entity with the code.
PartsHolding(code) ==
    { i \in 1..Len(parts) :
        \E j \in 1..Len(parts[i].entities) :
            parts[i].entities[j].entity = code }

\* C29: after a request for an entity code, the page is not found exactly
\* when no Budget Part of the hierarchy holds the code; otherwise it shows
\* the name of the first Budget Part, in hierarchy order, that holds the
\* code, and that part's entry for the code with that part's mandates, also
\* when later parts hold the code too.
C29_FirstPartHoldingTheCode ==
    "page" \in done =>
        LET code == IF entityParam = "UN%45P" THEN "UNEP" ELSE entityParam
            holding == PartsHolding(code)
        IN  IF holding = {}
            THEN /\ ~pageResult.found
                 /\ pageResult.entityData = << >>
            ELSE LET first == CHOOSE i \in holding : \A k \in holding : i <= k
                 IN  /\ pageResult.found
                     /\ pageResult.partName = parts[first].part
                     /\ Len(pageResult.entityData) = 1
                     /\ pageResult.entityData[1].entity = code
                     /\ \E j \in 1..Len(parts[first].entities) :
                           pageResult.entityData[1] = parts[first].entities[j]

\* UNEP, requested with an encoded letter, is held by two Budget Parts with
\* different mandates; the page shows the first part's.
C29_Witness ==
    /\ "page" \in done
    /\ entityParam = "UN%45P"
    /\ Cardinality(PartsHolding("UNEP")) = 2
    /\ \E i, k \in PartsHolding("UNEP") :
          /\ i < k
          /\ pageResult.partName = parts[i].part
          /\ \A j \in 1..Len(parts[k].entities) :
                parts[k].entities[j].entity = "UNEP" =>
                    pageResult.entityData[1] # parts[k].entities[j]
    /\ pageResult.found

(***************************************************************************)
(* The entity overview: one expanded chip and the place of its panel.      *)
(***************************************************************************)

\* Entity codes in alphabetical order, as the chips of a part are listed.
ChipCodes ==
    << "DESA", "DGACM", "DPO", "DPPA", "OCHA", "OHCHR", "UNCTAD", "UNDP",
       "UNEP", "UNODC", "UNOG", "UNON" >>

\* A part of the overview with the first n codes as its entities.
PartWith(name, n) ==
    [ part |-> name, entities |-> SubSeq(ChipCodes, 1, n) ]

\* window.innerWidth at and around the breakpoints.
Widths == { 320, 639, 640, 767, 768, 1023, 1024, 1440 }

\* update of useColumns: the Tailwind breakpoints lg, md, sm.
ColumnsFor(w) ==
    IF w >= 1024 THEN 8
    ELSE IF w >= 768 THEN 6
    ELSE IF w >= 640 THEN 4
    ELSE 3

\* `${partData.part}-${e.entity}`
EntityKey(part, entity) == part \o "-" \o entity

\* entities.findIndex((e) => key(e) === expandedEntity): the 0-based index
\* of the first chip of the part with the expanded key, or -1.
SelectedIdx(partData, expanded) ==
    LET hits == { i \in 0..(Len(partData.entities) - 1) :
                    EntityKey(partData.part, partData.entities[i + 1])
                        = expanded }
    IN  IF hits = {} THEN -1
        ELSE CHOOSE i \in hits : \A k \in hits : i <= k

\* Math.ceil(a / b) for a positive a and b.
Ceil(a, b) == (a + b - 1) \div b

\* The row end taken as the start of the next row: the panel would follow
\* the first chip of the row after the selected one.
SelectedRowEndNextRow(selectedIdx, cols) ==
    IF selectedIdx >= 0 THEN Ceil(selectedIdx + 1, cols) * cols + 1 ELSE -1

\* selectedIdx >= 0 ? Math.ceil((selectedIdx + 1) / columns) * columns : -1
SelectedRowEnd(selectedIdx, cols) ==
    IF selectedIdx >= 0 THEN Ceil(selectedIdx + 1, cols) * cols ELSE -1

\* The 0-based indices of the chips of a part that are followed by the
\* panel: isLastInSelectedRow && expandedData.
PanelPositions(partData, expanded, cols) ==
    LET n == Len(partData.entities)
        selectedIdx == SelectedIdx(partData, expanded)
        selectedRowEnd == SelectedRowEnd(selectedIdx, cols)
    IN  { idx \in 0..(n - 1) :
            /\ \/ idx + 1 = selectedRowEnd
               \/ idx = n - 1 /\ selectedRowEnd > n
            /\ selectedIdx >= 0 }

\* The overview after its first render: nothing expanded, eight columns, and
\* one or two parts of up to MaxChips entities each.
InitOverview ==
    /\ \E n1 \in 1..MaxChips, n2 \in 0..MaxChips :
          overviewParts =
             IF n2 = 0 THEN << PartWith("Political affairs", n1) >>
             ELSE << PartWith("Political affairs", n1),
                     PartWith("International justice and law", n2) >>
    /\ expandedEntity = NULL
    /\ columns = 8
    /\ lastChip = [ control |-> "none", key |-> NULL, before |-> NULL ]
    /\ done = {}
    /\ ToggleIdle /\ FilterIdle /\ RelIdle /\ PageIdle
    /\ PipelineIdle
    /\ LookupIdle
    /\ TreeIdle
    /\ CalcIdle
    /\ ViewIdle

\* setExpandedEntity((prev) => (prev === entityKey ? null : entityKey))
NextExpanded(prev, entityKey) == IF prev = entityKey THEN NULL ELSE entityKey

\* A click on chip idx (0-based) of part p: toggleEntity(entityKey).
ToggleEntity(p, idx) ==
    /\ p \in 1..Len(overviewParts)
    /\ idx \in 0..(Len(overviewParts[p].entities) - 1)
    /\ LET entityKey == EntityKey(overviewParts[p].part,
                                  overviewParts[p].entities[idx + 1])
       IN  /\ expandedEntity' = NextExpanded(expandedEntity, entityKey)
           /\ lastChip' = [ control |-> "chip", key |-> entityKey,
                            before |-> expandedEntity ]
    /\ UNCHANGED << overviewParts, columns, done, pipelineVars, lookupVars,
                    treeVars, calcVars, viewVars, toggleVars, filterVars,
                    relVars, pageVars >>

\* A click on the close control of a rendered panel: setExpandedEntity(null).
ClosePanel ==
    /\ \E p \in 1..Len(overviewParts) :
          PanelPositions(overviewParts[p], expandedEntity, columns) # {}
    /\ expandedEntity' = NULL
    /\ lastChip' = [ control |-> "close", key |-> NULL,
                     before |-> expandedEntity ]
    /\ UNCHANGED << overviewParts, columns, done, pipelineVars, lookupVars,
                    treeVars, calcVars, viewVars, toggleVars, filterVars,
                    relVars, pageVars >>

\* The mount effect or a resize event of useColumns at window width w.
Resize(w) ==
    /\ columns' = ColumnsFor(w)
    /\ lastChip' = [ control |-> "resize", key |-> NULL,
                     before |-> expandedEntity ]
    /\ UNCHANGED << overviewParts, expandedEntity, done, pipelineVars,
                    lookupVars, treeVars, calcVars, viewVars, toggleVars,
                    filterVars, relVars, pageVars >>

NextOverview ==
    \/ \E p \in 1..2, idx \in 0..MaxChips : ToggleEntity(p, idx)
    \/ ClosePanel
    \/ \E w \in Widths : Resize(w)

SpecOverview == InitOverview /\ [][NextOverview]_vars

\* The 0-based indices of the chips of part p whose key is the expanded one.
ExpandedIn(p) ==
    { s \in 0..(Len(overviewParts[p].entities) - 1) :
        overviewParts[p].part \o "-" \o overviewParts[p].entities[s + 1]
            = expandedEntity }

\* The last chip of the grid row of c columns that holds chip s, among n
\* chips.
LastOfRow(s, c, n) ==
    CHOOSE i \in 0..(n - 1) :
        /\ i \div c = s \div c
        /\ \A k \in 0..(n - 1) : k \div c = s \div c => k <= i

\* C30: in the entity overview, after any clicks on chips, closes and
\* changes of width, the columns are 3, 4, 6 or 8; the expanded key is null
\* or the key of one chip, so no part has two expanded chips; a click on the
\* expanded chip leaves nothing expanded, a click on another chip leaves
\* that chip expanded, a close leaves nothing expanded and a resize leaves
\* the expanded key as it was; a part whose chip s is expanded renders one
\* panel, after the last chip of the grid row holding s, which is the chip
\* at index min(ceil((s+1)/c)*c, n) - 1; a part with no expanded chip, and
\* every part when nothing is expanded, renders no panel.
C30_OnePanelAtRowEnd ==
    /\ columns \in { 3, 4, 6, 8 }
    /\ lastChip.control = "chip" =>
          expandedEntity = IF lastChip.before = lastChip.key THEN NULL
                           ELSE lastChip.key
    /\ lastChip.control = "close" => expandedEntity = NULL
    /\ lastChip.control = "resize" => expandedEntity = lastChip.before
    /\ \A p \in 1..Len(overviewParts) :
          LET n == Len(overviewParts[p].entities)
              panelsShown == PanelPositions(overviewParts[p], expandedEntity,
                                            columns)
          IN  /\ Cardinality(ExpandedIn(p)) <= 1
              /\ \A s \in ExpandedIn(p) :
                    LET rowEnd == ((s + 1 + columns - 1) \div columns) * columns
                        place == (IF rowEnd < n THEN rowEnd ELSE n) - 1
                    IN  /\ panelsShown = { place }
                        /\ place = LastOfRow(s, columns, n)
              /\ ExpandedIn(p) = {} => panelsShown = {}
    /\ expandedEntity = NULL =>
          \A p \in 1..Len(overviewParts) :
              PanelPositions(overviewParts[p], expandedEntity, columns) = {}

\* With eight columns and nine chips, the second chip was clicked while the
\* ninth was expanded: the panel moved from after the ninth chip to after the
\* eighth.
C30_Witness ==
    /\ columns = 8
    /\ Len(overviewParts[1].entities) = 9
    /\ lastChip.control = "chip"
    /\ lastChip.before = "Political affairs-UNEP"
    /\ expandedEntity = "Political affairs-DGACM"
    /\ PanelPositions(overviewParts[1], expandedEntity, columns) = { 7 }
    /\ PanelPositions(overviewParts[1], lastChip.before, columns) = { 8 }

====
